---- MODULE Spec2Model ----
(***************************************************************************)
(* Model of hub-api-gateway: the circuit breaker (package proxy,           *)
(* circuit_breaker), the gRPC service registry (service_registry.go) and   *)
(* the proxy handler (ProxyHandler.HandleRequest).                         *)
(*                                                                         *)
(* Time is counted in seconds.  Every lock-protected section of the code   *)
(* is one atomic action; the code between two sections (the wrapped        *)
(* operation of Call, the gap between RUnlock and Lock in GetConnection)   *)
(* is a position of the calling goroutine.                                 *)
(***************************************************************************)
EXTENDS Integers, Sequences, FiniteSets, TLC

(* ---------------------------- bounds ----------------------------------- *)
NumCallers == 2          \* goroutines calling one breaker concurrently
NumRegCallers == 2       \* goroutines calling the registry concurrently
NumHandlers == 1         \* requests handled concurrently
MaxConns   == 3          \* connection objects that can be created
MaxTime    == 70         \* the clock stops advancing here
TickStep   == 10         \* seconds per clock step
MaxCount   == 6          \* cap on the failure counter (uint32 in the code)
NumValidators == 1       \* requests inside the auth middleware concurrently
MaxValidations == 2      \* ValidateToken calls made in one behaviour
AuthTickStep == 150      \* seconds per clock step while tokens are validated
AuthMaxTime  == 310      \* the clock of the middleware stops advancing here
MaxRoutes  == 3          \* routes in a routes.yaml

Callers == 1..NumCallers
RegCallers == 1..NumRegCallers
ConnIds == 1..MaxConns
Handlers == 1..NumHandlers
Validators == 1..NumValidators

(* ------------------------ program constants ---------------------------- *)
DefaultMaxFailures      == 5
DefaultResetTimeout     == 30
DefaultHalfOpenRequests == 3

StateClosed   == "CLOSED"
StateOpen     == "OPEN"
StateHalfOpen == "HALF_OPEN"

ErrCircuitOpen     == "ErrCircuitOpen"
ErrTooManyRequests == "ErrTooManyRequests"
Nil                == "nil"
OpErr              == "opErr"      \* the error of the wrapped operation

(* configurations handed to NewCircuitBreaker; 0 selects the default *)
CBConfigs ==
  { [MaxFailures |-> 0, ResetTimeout |-> 0, HalfOpenRequests |-> 0],
    [MaxFailures |-> 2, ResetTimeout |-> 10, HalfOpenRequests |-> 1] }

VARIABLES
  cb,          \* the CircuitBreaker struct
  now,         \* the wall clock, time.Now()
  cpc,         \* cpc[c]: position of caller c inside Call
  cret,        \* cret[c]: what the Call of caller c returned
  cadm,        \* history: breaker state in which the running Call of c was admitted
  consecFails, \* history: executed Calls that failed in a row (saturating)
  lastTrip,    \* history: state the breaker left when it last became Open
  connections, \* ServiceRegistry.connections: service name -> connection (0: no entry)
  conns,       \* the grpc.ClientConn objects created so far: id -> [svc, state]
  rpc,         \* rpc[c]: position of registry caller c
  rop,         \* rop[c]: the registry method caller c is in
  rsvc,        \* rsvc[c]: its serviceName argument
  rconn,       \* rconn[c]: the connection it holds or was returned (0: nil)
  rerr,        \* rerr[c]: the error it was returned
  hstate,      \* hstate[c]: the state HealthCheck read before waiting
  rafter,      \* history: Close() has completed; calls on the creation path issued after it
  breakers,    \* the registry's circuit breakers: service name -> CircuitBreaker
  hpc,         \* hpc[h]: position of request handler h inside HandleRequest
  hroute,      \* hroute[h]: the route of the request (target service, typed builder)
  hconn,       \* hconn[h]: the connection GetConnection returned (0: nil)
  herr,        \* herr[h]: the error of the wrapped GetConnection
  hresp,       \* hresp[h]: the response written, [status, code]
  backendFails,\* history: backend invocations of a service that failed in a row
  redis,       \* the Redis server: entries [key, val, exp]
  redisClient, \* AuthMiddleware.redisClient # nil
  vpc,         \* vpc[v]: position of request v inside Middleware
  vhdr,        \* vhdr[v]: the Authorization header of the request
  vtok,        \* vtok[v]: the token argument of its ValidateToken call
  vres,        \* vres[v]: the result ValidateToken holds or returned, [uc, err]
  vresp,       \* vresp[v]: the response Middleware wrote, [status, code]
  vnext,       \* vnext[v]: the "user" value next.ServeHTTP was called with
  vreply,      \* vreply[v]: history: the answer of the user service to this call
  vfault,      \* vfault[v]: history: this call had no cache or a cache failure
  vhist,       \* vhist[t]: history of the ValidateToken calls for token t
  vauth,       \* vauth[v]: route.RequiresAuth() of the request ("none": no request)
  vmd,         \* vmd[v]: the user identity HandleRequest forwards to the backend
  routes,      \* ServiceRouter.routes: the compiled routes in matching order
  rreq,        \* the request FindRoute was last called with, [path, method]
  rres,        \* what that FindRoute returned, [route, err]
  rvars,       \* what ExtractPathVariables returned for the route found
  qpc,         \* qpc[h]: position of request h in the dynamic route handler
  qroute,      \* qroute[h]: the route FindRoute returned for it
  qtrace,      \* qtrace[h]: history: what the request did so far, in order
  qbody,       \* qbody[h]: the bodies written to its ResponseWriter, in order
  qresp        \* qresp[h]: history: the message the backend answered with

cbvars  == <<cb, now, cpc, cret, cadm, consecFails, lastTrip>>
regvars == <<connections, conns, rpc, rop, rsvc, rconn, rerr, hstate, rafter>>
pxvars  == <<breakers, hpc, hroute, hconn, herr, hresp, backendFails>>
authvars == <<redis, redisClient, vpc, vhdr, vtok, vres, vresp, vnext, vreply, vfault, vhist,
             vauth, vmd>>
rtvars  == <<routes, rreq, rres, rvars>>
rqvars  == <<qpc, qroute, qtrace, qbody, qresp>>
vars    == <<cbvars, regvars, pxvars, authvars, rtvars, rqvars>>

(* ------------------------- circuit breaker ----------------------------- *)
NewCircuitBreaker(config) ==
  [ maxFailures      |-> IF config.MaxFailures = 0
                         THEN DefaultMaxFailures ELSE config.MaxFailures,
    resetTimeout     |-> IF config.ResetTimeout = 0
                         THEN DefaultResetTimeout ELSE config.ResetTimeout,
    halfOpenRequests |-> IF config.HalfOpenRequests = 0
                         THEN DefaultHalfOpenRequests ELSE config.HalfOpenRequests,
    state            |-> StateClosed,
    failures         |-> 0,
    lastFailureTime  |-> 0,
    successCount     |-> 0 ]

(* slip: the recovery test admits at exactly resetTimeout (>= for >) *)
beforeRequest_atTimeout(b, t) ==
  CASE b.state = StateClosed -> [cb |-> b, err |-> Nil]
    [] b.state = StateOpen ->
         IF t - b.lastFailureTime >= b.resetTimeout
         THEN [cb |-> [b EXCEPT !.state = StateHalfOpen, !.successCount = 0],
               err |-> Nil]
         ELSE [cb |-> b, err |-> ErrCircuitOpen]
    [] b.state = StateHalfOpen ->
         IF b.successCount >= b.halfOpenRequests
         THEN [cb |-> b, err |-> ErrTooManyRequests]
         ELSE [cb |-> b, err |-> Nil]
    [] OTHER -> [cb |-> b, err |-> Nil]

(* slip: the probe counter is not cleared when the breaker goes HalfOpen *)
beforeRequest_staleCount(b, t) ==
  CASE b.state = StateClosed -> [cb |-> b, err |-> Nil]
    [] b.state = StateOpen ->
         IF t - b.lastFailureTime > b.resetTimeout
         THEN [cb |-> [b EXCEPT !.state = StateHalfOpen], err |-> Nil]
         ELSE [cb |-> b, err |-> ErrCircuitOpen]
    [] b.state = StateHalfOpen ->
         IF b.successCount >= b.halfOpenRequests
         THEN [cb |-> b, err |-> ErrTooManyRequests]
         ELSE [cb |-> b, err |-> Nil]
    [] OTHER -> [cb |-> b, err |-> Nil]

(* beforeRequest: the breaker after the check, and the error returned *)
beforeRequest(b, t) ==
  CASE b.state = StateClosed -> [cb |-> b, err |-> Nil]
    [] b.state = StateOpen ->
         IF t - b.lastFailureTime > b.resetTimeout
         THEN [cb |-> [b EXCEPT !.state = StateHalfOpen, !.successCount = 0],
               err |-> Nil]
         ELSE [cb |-> b, err |-> ErrCircuitOpen]
    [] b.state = StateHalfOpen ->
         IF b.successCount >= b.halfOpenRequests
         THEN [cb |-> b, err |-> ErrTooManyRequests]
         ELSE [cb |-> b, err |-> Nil]
    [] OTHER -> [cb |-> b, err |-> Nil]

(* slip: the breaker opens one failure late (> for >=) *)
onFailure_lateTrip(b, t) ==
  LET b1 == [b EXCEPT !.failures = b.failures + 1, !.lastFailureTime = t]
  IN CASE b1.state = StateClosed ->
            IF b1.failures > b1.maxFailures
            THEN [b1 EXCEPT !.state = StateOpen] ELSE b1
       [] b1.state = StateHalfOpen ->
            [b1 EXCEPT !.state = StateOpen, !.successCount = 0]
       [] OTHER -> b1

(* slip: a failed probe leaves the breaker HalfOpen *)
onFailure_probeIgnored(b, t) ==
  LET b1 == [b EXCEPT !.failures = b.failures + 1, !.lastFailureTime = t]
  IN CASE b1.state = StateClosed ->
            IF b1.failures >= b1.maxFailures
            THEN [b1 EXCEPT !.state = StateOpen] ELSE b1
       [] OTHER -> b1

onFailure(b, t) ==
  LET b1 == [b EXCEPT !.failures = b.failures + 1, !.lastFailureTime = t]
  IN CASE b1.state = StateClosed ->
            IF b1.failures >= b1.maxFailures
            THEN [b1 EXCEPT !.state = StateOpen] ELSE b1
       [] b1.state = StateHalfOpen ->
            [b1 EXCEPT !.state = StateOpen, !.successCount = 0]
       [] OTHER -> b1

(* slip: any success outside Closed counts as a probe, also while Open *)
onSuccess_closesOpen(b) ==
  IF b.state = StateClosed
  THEN [b EXCEPT !.failures = 0]
  ELSE LET b1 == [b EXCEPT !.successCount = b.successCount + 1]
       IN IF b1.successCount >= b1.halfOpenRequests
          THEN [b1 EXCEPT !.state = StateClosed, !.failures = 0] ELSE b1

(* slip: successful probes are counted but never close the breaker *)
onSuccess_neverCloses(b) ==
  CASE b.state = StateClosed -> [b EXCEPT !.failures = 0]
    [] b.state = StateHalfOpen -> [b EXCEPT !.successCount = b.successCount + 1]
    [] OTHER -> b

onSuccess(b) ==
  CASE b.state = StateClosed -> [b EXCEPT !.failures = 0]
    [] b.state = StateHalfOpen ->
         LET b1 == [b EXCEPT !.successCount = b.successCount + 1]
         IN IF b1.successCount >= b1.halfOpenRequests
            THEN [b1 EXCEPT !.state = StateClosed, !.failures = 0] ELSE b1
    [] OTHER -> b

afterRequest(b, err, t) ==
  IF err # Nil THEN onFailure(b, t) ELSE onSuccess(b)

(* slip: Reset closes the breaker and keeps the failure counter *)
Reset_keepsFailures(b) ==
  [b EXCEPT !.state = StateClosed, !.successCount = 0]

Reset(b) ==
  [b EXCEPT !.state = StateClosed, !.failures = 0, !.successCount = 0]

(* history of executed Calls: a failure extends the run, a success or a
   manual Reset starts a new one *)
Bump(n, b) == IF n < b.maxFailures THEN n + 1 ELSE n

(* --------------------------- service registry -------------------------- *)
(* config.Services: the configured service names; the flag tells whether
   grpc.NewClient accepts the configured address *)
ConfigServices ==
  [s \in {"order-service", "user-service", "market-data-service"} |->
     s \in {"order-service", "user-service"}]

(* service names a route can target; "hub-monolith" is not configured *)
ServiceNames == {"order-service", "market-data-service", "hub-monolith"}

(* every name the connection map can be asked for *)
KnownServices == ServiceNames \cup DOMAIN ConfigServices

ErrNotConfigured == "ErrNotConfigured"
ErrNewClient     == "ErrNewClient"
ErrUnhealthy     == "ErrUnhealthy"
ErrNotReady      == "ErrNotReady"
ErrClose         == "ErrClose"

NoConn == [svc |-> "none", state |-> "NONE"]

NewServiceRegistry ==
  [connections |-> [s \in KnownServices |-> 0],
   conns       |-> [i \in ConnIds |-> NoConn]]

(* slip: only a READY connection is reused *)
Usable_readyOnly(m, h, s) == m[s] # 0 /\ h[m[s]].state = "READY"

(* exists && conn.GetState().String() != "SHUTDOWN" *)
Usable(m, h, s) == m[s] # 0 /\ h[m[s]].state # "SHUTDOWN"

FreeIds(h) == {i \in ConnIds : h[i].state = "NONE"}
NewId(h)   == CHOOSE i \in FreeIds(h) : \A j \in FreeIds(h) : i <= j

(* slip: no second check under the exclusive lock *)
createConnection_noRecheck(m, h, s) ==
  IF s \notin DOMAIN ConfigServices
  THEN [connections |-> m, conns |-> h, conn |-> 0, err |-> ErrNotConfigured]
  ELSE IF ~ConfigServices[s]
  THEN [connections |-> m, conns |-> h, conn |-> 0, err |-> ErrNewClient]
  ELSE LET id == NewId(h)
       IN [connections |-> [m EXCEPT ![s] = id],
           conns       |-> [h EXCEPT ![id] = [svc |-> s, state |-> "IDLE"]],
           conn        |-> id,
           err         |-> Nil]

(* slip: the entry is stored before the error of grpc.NewClient is tested *)
createConnection_storeFirst(m, h, s) ==
  IF Usable(m, h, s)
  THEN [connections |-> m, conns |-> h, conn |-> m[s], err |-> Nil]
  ELSE IF s \notin DOMAIN ConfigServices
  THEN [connections |-> m, conns |-> h, conn |-> 0, err |-> ErrNotConfigured]
  ELSE LET id == NewId(h)
           m1 == [m EXCEPT ![s] = id]
           h1 == [h EXCEPT ![id] = [svc |-> s, state |-> "IDLE"]]
       IN IF ~ConfigServices[s]
          THEN [connections |-> m1, conns |-> h1, conn |-> 0, err |-> ErrNewClient]
          ELSE [connections |-> m1, conns |-> h1, conn |-> id, err |-> Nil]

(* createConnection under the exclusive lock: the registry after the call,
   the connection and the error returned *)
createConnection(m, h, s) ==
  IF Usable(m, h, s)
  THEN [connections |-> m, conns |-> h, conn |-> m[s], err |-> Nil]
  ELSE IF s \notin DOMAIN ConfigServices
  THEN [connections |-> m, conns |-> h, conn |-> 0, err |-> ErrNotConfigured]
  ELSE IF ~ConfigServices[s]
  THEN [connections |-> m, conns |-> h, conn |-> 0, err |-> ErrNewClient]
  ELSE LET id == NewId(h)
       IN [connections |-> [m EXCEPT ![s] = id],
           conns       |-> [h EXCEPT ![id] = [svc |-> s, state |-> "IDLE"]],
           conn        |-> id,
           err         |-> Nil]

(* slip: the loop stops at the first conn.Close() that fails *)
CloseAll_abort(m, h) ==
  LET stored == {m[s] : s \in DOMAIN m} \ {0}
      failed == {i \in stored : h[i].state = "SHUTDOWN"}
  IN [conns |-> [i \in ConnIds |->
                   IF i \in stored /\ failed = {}
                   THEN [h[i] EXCEPT !.state = "SHUTDOWN"] ELSE h[i]],
      err   |-> IF failed # {} THEN ErrClose ELSE Nil]

(* Close under the exclusive lock: conn.Close() of every stored connection;
   closing a connection that is already closed returns an error *)
CloseAll(m, h) ==
  LET stored == {m[s] : s \in DOMAIN m} \ {0}
      failed == {i \in stored : h[i].state = "SHUTDOWN"}
  IN [conns |-> [i \in ConnIds |->
                   IF i \in stored THEN [h[i] EXCEPT !.state = "SHUTDOWN"] ELSE h[i]],
      err   |-> IF failed # {} THEN ErrClose ELSE Nil]

RegDone(c, conn, err) ==
  /\ rpc' = [rpc EXCEPT ![c] = "returned"]
  /\ rconn' = [rconn EXCEPT ![c] = conn]
  /\ rerr' = [rerr EXCEPT ![c] = err]

(* GetConnection, read path: map lookup under the shared lock, state check *)
GetConnection(c, op, s) ==
  /\ rpc[c] = "idle"
  /\ rop' = [rop EXCEPT ![c] = op]
  /\ rsvc' = [rsvc EXCEPT ![c] = s]
  /\ IF Usable(connections, conns, s)
     THEN IF op = "HealthCheck"
          THEN /\ rpc' = [rpc EXCEPT ![c] = "state"]
               /\ rconn' = [rconn EXCEPT ![c] = connections[s]]
               /\ rerr' = rerr
          ELSE RegDone(c, connections[s], Nil)
     ELSE /\ rpc' = [rpc EXCEPT ![c] = "create"]
          /\ UNCHANGED <<rconn, rerr>>
  /\ rafter' = [rafter EXCEPT !.issued[c] =
                  rafter.closed /\ ~Usable(connections, conns, s)]
  /\ UNCHANGED <<connections, conns, hstate, cbvars, pxvars, authvars, rtvars, rqvars>>

(* GetConnection, creation path *)
CreateConnection(c) ==
  /\ rpc[c] = "create"
  /\ Usable(connections, conns, rsvc[c]) \/ FreeIds(conns) # {}
  /\ LET r == createConnection(connections, conns, rsvc[c])
     IN /\ connections' = r.connections
        /\ conns' = r.conns
        /\ IF r.err = Nil /\ rop[c] = "HealthCheck"
           THEN /\ rpc' = [rpc EXCEPT ![c] = "state"]
                /\ rconn' = [rconn EXCEPT ![c] = r.conn]
                /\ rerr' = rerr
           ELSE RegDone(c, r.conn, r.err)
  /\ rafter' = [rafter EXCEPT !.issued[c] = FALSE]
  /\ UNCHANGED <<rop, rsvc, hstate, cbvars, pxvars, authvars, rtvars, rqvars>>

(* HealthCheck: conn.GetState() and the test for an unhealthy state *)
HealthState(c) ==
  /\ rpc[c] = "state"
  /\ LET st == conns[rconn[c]].state
     IN IF st \in {"SHUTDOWN", "TRANSIENT_FAILURE"}
        THEN /\ RegDone(c, 0, ErrUnhealthy)
             /\ hstate' = hstate
        ELSE /\ rpc' = [rpc EXCEPT ![c] = "wait"]
             /\ hstate' = [hstate EXCEPT ![c] = st]
             /\ UNCHANGED <<rconn, rerr>>
  /\ UNCHANGED <<connections, conns, rop, rsvc, rafter, cbvars, pxvars, authvars, rtvars, rqvars>>

(* HealthCheck: WaitForStateChange saw the state leave the one read *)
WaitChanged(c) ==
  /\ rpc[c] = "wait"
  /\ conns[rconn[c]].state # hstate[c]
  /\ RegDone(c, 0, Nil)
  /\ hstate' = [hstate EXCEPT ![c] = "none"]
  /\ UNCHANGED <<connections, conns, rop, rsvc, rafter, cbvars, pxvars, authvars, rtvars, rqvars>>

(* HealthCheck: the 2s context expired with the state unchanged *)
WaitTimeout(c) ==
  /\ rpc[c] = "wait"
  /\ conns[rconn[c]].state = hstate[c]
  /\ RegDone(c, 0, ErrNotReady)
  /\ hstate' = [hstate EXCEPT ![c] = "none"]
  /\ UNCHANGED <<connections, conns, rop, rsvc, rafter, cbvars, pxvars, authvars, rtvars, rqvars>>

Close(c) ==
  /\ rpc[c] = "idle"
  /\ LET r == CloseAll(connections, conns)
     IN /\ conns' = r.conns
        /\ RegDone(c, 0, r.err)
  /\ rop' = [rop EXCEPT ![c] = "Close"]
  /\ rsvc' = [rsvc EXCEPT ![c] = "none"]
  /\ rafter' = [rafter EXCEPT !.closed = TRUE]
  /\ UNCHANGED <<connections, hstate, cbvars, pxvars, authvars, rtvars, rqvars>>

(* the caller has consumed the result *)
RegReturn(c) ==
  /\ rpc[c] = "returned"
  /\ rpc' = [rpc EXCEPT ![c] = "idle"]
  /\ rop' = [rop EXCEPT ![c] = "none"]
  /\ rsvc' = [rsvc EXCEPT ![c] = "none"]
  /\ rconn' = [rconn EXCEPT ![c] = 0]
  /\ rerr' = [rerr EXCEPT ![c] = Nil]
  /\ UNCHANGED <<connections, conns, hstate, rafter, cbvars, pxvars, authvars, rtvars, rqvars>>

(* connectivity state machine of a grpc.ClientConn after Connect() *)
ConnStep(st) ==
  CASE st = "IDLE"              -> {"CONNECTING"}
    [] st = "CONNECTING"        -> {"READY", "TRANSIENT_FAILURE"}
    [] st = "READY"             -> {"IDLE", "TRANSIENT_FAILURE"}
    [] st = "TRANSIENT_FAILURE" -> {"CONNECTING"}
    [] OTHER                    -> {}

ConnStateChange(i) ==
  /\ \E st \in ConnStep(conns[i].state) :
        conns' = [conns EXCEPT ![i].state = st]
  /\ UNCHANGED <<connections, rpc, rop, rsvc, rconn, rerr, hstate, rafter, cbvars, pxvars, authvars, rtvars, rqvars>>

InitRegistry ==
  /\ connections = NewServiceRegistry.connections
  /\ conns = NewServiceRegistry.conns
  /\ rpc = [c \in RegCallers |-> "idle"]
  /\ rop = [c \in RegCallers |-> "none"]
  /\ rsvc = [c \in RegCallers |-> "none"]
  /\ rconn = [c \in RegCallers |-> 0]
  /\ rerr = [c \in RegCallers |-> Nil]
  /\ hstate = [c \in RegCallers |-> "none"]
  /\ rafter = [closed |-> FALSE, issued |-> [c \in RegCallers |-> FALSE]]


(* ------------------------ strings as sequences ------------------------- *)
(* A string of the program is the sequence of its characters. *)
Uppers == <<"A","B","C","D","E","F","G","H","I","J","K","L","M",
            "N","O","P","Q","R","S","T","U","V","W","X","Y","Z">>
Lowers == <<"a","b","c","d","e","f","g","h","i","j","k","l","m",
            "n","o","p","q","r","s","t","u","v","w","x","y","z">>

ToLower(c) ==
  IF \E i \in 1..Len(Uppers) : Uppers[i] = c
  THEN Lowers[CHOOSE i \in 1..Len(Uppers) : Uppers[i] = c]
  ELSE c

(* strings.EqualFold *)
EqualFold(a, b) ==
  /\ Len(a) = Len(b)
  /\ \A i \in 1..Len(a) : ToLower(a[i]) = ToLower(b[i])

(* strings.Contains *)
Contains(s, sub) ==
  \E i \in 0..(Len(s) - Len(sub)) :
    \A j \in 1..Len(sub) : s[i + j] = sub[j]

(* strings.SplitN(s, " ", 2) *)
SplitN2(s) ==
  IF \E i \in 1..Len(s) : s[i] = " "
  THEN LET i == CHOOSE k \in 1..Len(s) :
                  s[k] = " " /\ \A j \in 1..(k - 1) : s[j] # " "
       IN <<SubSeq(s, 1, i - 1), SubSeq(s, i + 1, Len(s))>>
  ELSE <<s>>

IsSpace(c) == c \in {" ", "\t", "\n", "\r"}

(* strings.TrimSpace *)
TrimSpace(s) ==
  IF \A i \in 1..Len(s) : IsSpace(s[i])
  THEN <<>>
  ELSE LET a == CHOOSE k \in 1..Len(s) :
                  ~IsSpace(s[k]) /\ \A j \in 1..(k - 1) : IsSpace(s[j])
           b == CHOOSE k \in 1..Len(s) :
                  ~IsSpace(s[k]) /\ \A j \in (k + 1)..Len(s) : IsSpace(s[j])
       IN SubSeq(s, a, b)

(* ------------------------- auth middleware ----------------------------- *)
NoResp  == [status |-> 0, code |-> "none"]

Bearer == <<"B","e","a","r","e","r">>
TokA   == <<"t","k","A">>
TokB   == <<"t","k","B">>
Tokens == {TokA, TokB}

(* Authorization headers requests arrive with; <<>> is the absent header *)
AuthHeaders ==
  { <<>>,
    Bearer,
    <<"B","a","s","i","c"," ">> \o TokA,
    Bearer \o <<" "," ">>,
    <<"b","e","a","r","e","r"," ">> \o TokA,
    Bearer \o <<" "," ">> \o TokB \o <<" ">> }

ErrHeaderNotFound == "authorization header not found"
ErrHeaderFormat   == "invalid authorization header format"
ErrScheme         == "authorization scheme must be Bearer"
ErrTokenEmpty     == "token is empty"

(* slip: the scheme is compared with == *)
extractToken_caseSensitive(authHeader) ==
  IF authHeader = <<>>
  THEN [token |-> <<>>, err |-> ErrHeaderNotFound]
  ELSE LET parts == SplitN2(authHeader)
       IN IF Len(parts) # 2
          THEN [token |-> <<>>, err |-> ErrHeaderFormat]
          ELSE IF parts[1] # Bearer
          THEN [token |-> <<>>, err |-> ErrScheme]
          ELSE IF TrimSpace(parts[2]) = <<>>
          THEN [token |-> <<>>, err |-> ErrTokenEmpty]
          ELSE [token |-> TrimSpace(parts[2]), err |-> Nil]

(* extractToken: the token of the Authorization header, or the error *)
extractToken(authHeader) ==
  IF authHeader = <<>>
  THEN [token |-> <<>>, err |-> ErrHeaderNotFound]
  ELSE LET parts == SplitN2(authHeader)
       IN IF Len(parts) # 2
          THEN [token |-> <<>>, err |-> ErrHeaderFormat]
          ELSE IF ~EqualFold(parts[1], Bearer)
          THEN [token |-> <<>>, err |-> ErrScheme]
          ELSE IF TrimSpace(parts[2]) = <<>>
          THEN [token |-> <<>>, err |-> ErrTokenEmpty]
          ELSE [token |-> TrimSpace(parts[2]), err |-> Nil]

(* slip: a digest that does not depend on the token *)
hashToken_constant(token) == <<"e","3","b","0","c","4","4","2">>

(* hashToken: the hex SHA-256 digest of the token (leading digits) *)
hashToken(token) ==
  CASE token = TokA -> <<"5","d","4","1","4","0","2","a">>
    [] token = TokB -> <<"7","c","2","2","2","f","b","2">>
    [] OTHER        -> <<"e","3","b","0","c","4","4","2">>

CachePrefix == <<"token_valid:">>
CacheTTL    == 300

(* slip: the cache key is built from the token itself *)
cacheKey_rawToken(token) == CachePrefix \o token

(* fmt.Sprintf("token_valid:%s", tokenHash) *)
cacheKey(token) == CachePrefix \o hashToken(token)

NoUser == [userId |-> "", email |-> ""]

(* json.Marshal and json.Unmarshal of a UserContext *)
Marshal(uc)  == <<"{\"userId\":", uc.userId, ",\"email\":", uc.email, "}">>
Unmarshal(d) == [userId |-> d[2], email |-> d[4]]

ErrRedisNil  == "redis: nil"
ErrRedisDown == "redis: connection refused"

(* slip: entries are kept past their expiry time *)
Unexpired_forever(rd, key, t) == {e \in rd : e.key = key}

(* the entry of a key that has not expired at time t *)
Unexpired(rd, key, t) == {e \in rd : e.key = key /\ t < e.exp}

(* slip: the key is looked up without its prefix *)
getFromCache_bareHash(rd, key, t, down) ==
  IF down THEN [uc |-> NoUser, err |-> ErrRedisDown]
  ELSE IF Unexpired(rd, Tail(key), t) = {} THEN [uc |-> NoUser, err |-> ErrRedisNil]
  ELSE [uc |-> Unmarshal((CHOOSE e \in Unexpired(rd, Tail(key), t) : TRUE).val), err |-> Nil]

(* getFromCache: redis GET then Unmarshal; down: the server does not answer *)
getFromCache(rd, key, t, down) ==
  IF down THEN [uc |-> NoUser, err |-> ErrRedisDown]
  ELSE IF Unexpired(rd, key, t) = {} THEN [uc |-> NoUser, err |-> ErrRedisNil]
  ELSE [uc |-> Unmarshal((CHOOSE e \in Unexpired(rd, key, t) : TRUE).val), err |-> Nil]

(* saveToCache: Marshal then redis SET with the ttl *)
saveToCache(rd, key, uc, ttl, t, down) ==
  IF down THEN [redis |-> rd, err |-> ErrRedisDown]
  ELSE [redis |-> {e \in rd : e.key # key}
                    \cup {[key |-> key, val |-> Marshal(uc), exp |-> t + ttl]},
        err |-> Nil]

(* slip: a read the server did not answer counts as a hit *)
cacheHit_anyAnswer(r) == r.err # ErrRedisNil

(* ValidateToken, the test of the cache read: err == nil && cachedUser != nil *)
cacheHit(r) == r.err = Nil /\ r.uc # NoUser

(* the user service's answers to ValidateToken for a token *)
UserOf(token) ==
  IF token = TokA THEN [userId |-> "u1", email |-> "a@hub"]
                  ELSE [userId |-> "u2", email |-> "b@hub"]

Reply(status, success, info, uc) ==
  [rpc |-> status, success |-> success, info |-> info,
   userId |-> uc.userId, email |-> uc.email]

NoReply == Reply("none", FALSE, FALSE, NoUser)

IdentityReplies(token) ==
  { Reply("ok", TRUE, TRUE, UserOf(token)),
    Reply("ok", FALSE, FALSE, NoUser),
    Reply("error", FALSE, FALSE, NoUser),
    Reply("ok", TRUE, FALSE, NoUser),
    Reply("ok", TRUE, TRUE, [userId |-> UserOf(token).userId, email |-> ""]) }

ErrRPC         == "failed to validate token"
ErrNotValid    == "token validation failed"
ErrNoUserInfo  == "user info not found in response"
ErrUserContext == "invalid user context from service"

(* UserServiceClient.ValidateToken: one RPC, no retry *)
userClientValidateToken(reply) ==
  IF reply.rpc # "ok" THEN [resp |-> NoReply, err |-> ErrRPC]
  ELSE IF ~reply.success THEN [resp |-> NoReply, err |-> ErrNotValid]
  ELSE [resp |-> reply, err |-> Nil]

(* slip: an answer without e-mail address is accepted *)
validateTokenWithUserService_noEmail(reply) ==
  LET r == userClientValidateToken(reply)
  IN IF r.err # Nil THEN [uc |-> NoUser, err |-> r.err]
     ELSE IF ~r.resp.info THEN [uc |-> NoUser, err |-> ErrNoUserInfo]
     ELSE [uc |-> [userId |-> r.resp.userId, email |-> r.resp.email], err |-> Nil]

validateTokenWithUserService(reply) ==
  LET r == userClientValidateToken(reply)
  IN IF r.err # Nil THEN [uc |-> NoUser, err |-> r.err]
     ELSE IF ~r.resp.success THEN [uc |-> NoUser, err |-> ErrNotValid]
     ELSE IF ~r.resp.info THEN [uc |-> NoUser, err |-> ErrNoUserInfo]
     ELSE IF r.resp.userId = "" \/ r.resp.email = ""
     THEN [uc |-> NoUser, err |-> ErrUserContext]
     ELSE [uc |-> [userId |-> r.resp.userId, email |-> r.resp.email], err |-> Nil]

NoToken  == <<>>
NoResult == [uc |-> NoUser, err |-> Nil]

NewHist ==
  [calls |-> 0, idCalls |-> 0, reads |-> 0, hits |-> 0,
   overlap |-> FALSE, rejected |-> FALSE, disturbed |-> FALSE,
   accepted |-> {}]

(* the user service accepted the token with this user context, and the
   call it did so in was at this time *)
Accepted(uc, t) == [userId |-> uc.userId, email |-> uc.email, at |-> t]

(* the acceptances on record, each user context with the latest time *)
Accept(acc, uc, t) ==
  {a \in acc : a.userId # uc.userId \/ a.email # uc.email} \cup {Accepted(uc, t)}

(* HandleRequest: the user identity in the outgoing metadata and in the
   request message; nothing without a user context in the request context *)
NoIdentity == [xUserId |-> "", xUserEmail |-> "", userId |-> ""]
OutgoingIdentity(userContext) ==
  IF userContext = NoUser THEN NoIdentity
  ELSE [xUserId |-> userContext.userId, xUserEmail |-> userContext.email,
        userId |-> userContext.userId]

(* ValidateToken calls made so far *)
RECURSIVE TotalCalls(_, _)
TotalCalls(h, ts) ==
  IF ts = {} THEN 0
  ELSE LET t == CHOOSE x \in ts : TRUE
       IN h[t].calls + TotalCalls(h, ts \ {t})

(* a ValidateToken call for the token is between its first and last step *)
InProgress(token) ==
  \E w \in Validators : vpc[w] \in {"identity", "save"} /\ vtok[w] = token

(* slip: a failed extraction is answered like a failed validation *)
ExtractionFailed_invalid == [status |-> 401, code |-> "AUTH_TOKEN_INVALID"]

(* Middleware, the response to an error of extractToken *)
ExtractionFailed == [status |-> 401, code |-> "AUTH_TOKEN_MISSING"]

(* Middleware, the response to an error of ValidateToken *)
ValidationFailed == [status |-> 401, code |-> "AUTH_TOKEN_INVALID"]

(* Middleware, after ValidateToken returned r: 401, or next.ServeHTTP with
   the user context, which is HandleRequest *)
Finish(v, r) ==
  /\ vpc' = [vpc EXCEPT ![v] = "done"]
  /\ vres' = [vres EXCEPT ![v] = r]
  /\ IF r.err # Nil
     THEN /\ vresp' = [vresp EXCEPT ![v] = ValidationFailed]
          /\ UNCHANGED <<vnext, vmd>>
     ELSE /\ vnext' = [vnext EXCEPT ![v] = r.uc]
          /\ vmd' = [vmd EXCEPT ![v] = OutgoingIdentity(r.uc)]
          /\ vresp' = vresp

(* Middleware up to the call of the user service: extractToken and the 401
   of its error, then ValidateToken: the cache key, and with a cache client
   the read and the return of a hit *)
Middleware(v, hdr, down) ==
  LET x     == extractToken(hdr)
      token == x.token
      r     == getFromCache(redis, cacheKey(token), now, down)
      hit   == redisClient /\ cacheHit(r)
  IN /\ vpc[v] = "idle"
     /\ vhdr' = [vhdr EXCEPT ![v] = hdr]
     /\ vauth' = [vauth EXCEPT ![v] = "auth"]
     /\ IF x.err # Nil
        THEN /\ ~down
             /\ vpc' = [vpc EXCEPT ![v] = "done"]
             /\ vres' = [vres EXCEPT ![v] = [uc |-> NoUser, err |-> x.err]]
             /\ vresp' = [vresp EXCEPT ![v] = ExtractionFailed]
             /\ UNCHANGED <<vtok, vnext, vfault, vhist, vmd>>
        ELSE /\ ~redisClient => ~down
             /\ TotalCalls(vhist, Tokens) < MaxValidations
             /\ vtok' = [vtok EXCEPT ![v] = token]
             /\ vfault' = [vfault EXCEPT ![v] = ~redisClient \/ down]
             /\ vhist' = [vhist EXCEPT ![token] =
                  [@ EXCEPT !.calls = @ + 1,
                            !.reads = IF redisClient THEN @ + 1 ELSE @,
                            !.hits  = IF hit THEN @ + 1 ELSE @,
                            !.overlap = @ \/ InProgress(token),
                            !.disturbed = @ \/ down
                              \/ \E e \in redis : e.key = cacheKey(token) /\ now >= e.exp]]
             /\ IF hit
                THEN Finish(v, [uc |-> r.uc, err |-> Nil])
                ELSE /\ vpc' = [vpc EXCEPT ![v] = "identity"]
                     /\ UNCHANGED <<vres, vresp, vnext, vmd>>
     /\ UNCHANGED <<redis, redisClient, vreply>>
     /\ UNCHANGED <<cbvars, regvars, pxvars, rtvars, rqvars>>

(* ValidateToken, the call of the user service and the return of its error *)
CallUserService(v, reply) ==
  /\ vpc[v] = "identity"
  /\ LET r == validateTokenWithUserService(reply)
     IN /\ IF r.err = Nil /\ redisClient
           THEN /\ vpc' = [vpc EXCEPT ![v] = "save"]
                /\ vres' = [vres EXCEPT ![v] = r]
                /\ UNCHANGED <<vresp, vnext, vmd>>
           ELSE Finish(v, r)
        /\ vhist' = [vhist EXCEPT ![vtok[v]] =
             [@ EXCEPT !.idCalls = @ + 1,
                       !.rejected = @ \/ r.err # Nil,
                       !.accepted = IF r.err = Nil
                                    THEN Accept(@, r.uc, now) ELSE @]]
  /\ vreply' = [vreply EXCEPT ![v] = reply]
  /\ UNCHANGED <<redis, redisClient, vhdr, vtok, vfault, vauth>>
  /\ UNCHANGED <<cbvars, regvars, pxvars, rtvars, rqvars>>

(* ValidateToken, the cache write and the return of the user context *)
SaveToCache(v, down) ==
  /\ vpc[v] = "save"
  /\ LET s == saveToCache(redis, cacheKey(vtok[v]), vres[v].uc, CacheTTL, now, down)
     IN redis' = s.redis
  /\ Finish(v, [uc |-> vres[v].uc, err |-> Nil])
  /\ vfault' = [vfault EXCEPT ![v] = @ \/ down]
  /\ vhist' = [vhist EXCEPT ![vtok[v]] =
       [@ EXCEPT !.disturbed = @ \/ down,
                 !.accepted = Accept(@, vres[v].uc, now)]]
  /\ UNCHANGED <<redisClient, vhdr, vtok, vreply, vauth>>
  /\ UNCHANGED <<cbvars, regvars, pxvars, rtvars, rqvars>>

(* the dynamic route handler for a route that requires no authentication:
   HandleRequest is called directly, whatever the request's headers are *)
PublicRequest(v, hdr) ==
  /\ vpc[v] = "idle"
  /\ vpc' = [vpc EXCEPT ![v] = "done"]
  /\ vhdr' = [vhdr EXCEPT ![v] = hdr]
  /\ vauth' = [vauth EXCEPT ![v] = "public"]
  /\ vmd' = [vmd EXCEPT ![v] = OutgoingIdentity(NoUser)]
  /\ UNCHANGED <<redis, redisClient, vtok, vres, vresp, vnext, vreply, vfault, vhist>>
  /\ UNCHANGED <<cbvars, regvars, pxvars, rtvars, rqvars>>

(* the request is over; the goroutine serves the next one *)
MiddlewareReturn(v) ==
  /\ vpc[v] = "done"
  /\ vpc' = [vpc EXCEPT ![v] = "idle"]
  /\ vhdr' = [vhdr EXCEPT ![v] = <<>>]
  /\ vtok' = [vtok EXCEPT ![v] = NoToken]
  /\ vres' = [vres EXCEPT ![v] = NoResult]
  /\ vresp' = [vresp EXCEPT ![v] = NoResp]
  /\ vnext' = [vnext EXCEPT ![v] = NoUser]
  /\ vreply' = [vreply EXCEPT ![v] = NoReply]
  /\ vfault' = [vfault EXCEPT ![v] = FALSE]
  /\ vauth' = [vauth EXCEPT ![v] = "none"]
  /\ vmd' = [vmd EXCEPT ![v] = NoIdentity]
  /\ UNCHANGED <<redis, redisClient, vhist>>
  /\ UNCHANGED <<cbvars, regvars, pxvars, rtvars, rqvars>>

AuthTick ==
  /\ now + AuthTickStep <= AuthMaxTime
  /\ now' = now + AuthTickStep
  /\ UNCHANGED <<cb, cpc, cret, cadm, consecFails, lastTrip>>
  /\ UNCHANGED <<regvars, pxvars, authvars, rtvars, rqvars>>

InitAuth ==
  /\ redis = {}
  /\ vpc = [v \in Validators |-> "idle"]
  /\ vhdr = [v \in Validators |-> <<>>]
  /\ vtok = [v \in Validators |-> NoToken]
  /\ vres = [v \in Validators |-> NoResult]
  /\ vresp = [v \in Validators |-> NoResp]
  /\ vnext = [v \in Validators |-> NoUser]
  /\ vreply = [v \in Validators |-> NoReply]
  /\ vfault = [v \in Validators |-> FALSE]
  /\ vhist = [t \in Tokens |-> NewHist]
  /\ vauth = [v \in Validators |-> "none"]
  /\ vmd = [v \in Validators |-> NoIdentity]

(* ------------------------------ router -------------------------------- *)
GET    == <<"G","E","T">>
POST   == <<"P","O","S","T">>
DELETE == <<"D","E","L","E","T","E">>

ApiV1   == <<"/","a","p","i","/","v","1">>
Orders  == ApiV1 \o <<"/","o","r","d","e","r","s">>
History == Orders \o <<"/","h","i","s","t","o","r","y">>
Quotes  == ApiV1 \o <<"/","m","a","r","k","e","t","-","d","a","t","a">>

(* a pattern whose brace is never closed *)
Unclosed == <<"/","o","r","d","e","r","s","/","{","i","d">>

(* a path variable with a very long name *)
LongVar == <<"{">> \o [i \in 1..600 |-> "n"] \o <<"}">>

NewRoute(path, method) == [path |-> path, method |-> method]

(* the routes a routes.yaml is written from *)
RoutePool ==
  { NewRoute(Orders, GET),
    NewRoute(Orders, POST),
    NewRoute(History, <<>>),
    NewRoute(Orders \o <<"/","{","i","d","}">>, GET),
    NewRoute(Orders \o <<"/","{","i","d","}">>, <<>>),
    NewRoute(Orders \o <<"/","*">>, <<>>),
    NewRoute(Orders \o <<"/","{","i","d","}","/","*">>, <<>>),
    NewRoute(Orders \o <<"/">> \o LongVar, GET),
    NewRoute(Quotes \o <<"/","*">>, GET),
    NewRoute(Orders \o <<"/","{","o","r","d","e","r","I","d","}","/",
                         "i","t","e","m","s","/","{","i","t","e","m","I","d","}">>, <<>>),
    NewRoute(Unclosed, <<>>) }

(* the requests FindRoute is called with *)
RequestPaths ==
  { Orders,
    Orders \o <<"/">>,
    Orders \o <<"/","1","2","3">>,
    Orders \o <<"/","1","2","3","/","i","t","e","m","s">>,
    Orders \o <<"/","1","2","3","/","i","t","e","m","s","/","4","5","6">>,
    History,
    ApiV1 \o <<"/","p","o","s","i","t","i","o","n","s">>,
    Quotes,
    Quotes \o <<"/">>,
    Quotes \o <<"/","A","A","P","L">>,
    Quotes \o <<"/","q","u","o","t","e","s","/","A","A","P","L">>,
    Orders \o <<"/","a","\n","b">>,
    Unclosed }

RequestMethods == {GET, <<"g","e","t">>, POST, DELETE}

(* the elements of a compiled pattern *)
Lit(c) == [k |-> "lit", c |-> c]
Seg    == [k |-> "seg", c |-> ""]     \* one or more characters other than /
Star   == [k |-> "any", c |-> ""]     \* any number of characters other than newline

(* the index of the brace that closes the one at i, 0 if a variable does
   not start at i: a variable needs a name of at least one character *)
Closing(p, i) ==
  IF \E j \in (i + 2)..Len(p) : p[j] = "}" /\ \A q \in (i + 1)..(j - 1) : p[q] # "}"
  THEN CHOOSE j \in (i + 2)..Len(p) : p[j] = "}" /\ \A q \in (i + 1)..(j - 1) : p[q] # "}"
  ELSE 0

(* CompilePathPattern, the regular expression between ^ and $ for the
   pattern from position i on: a variable becomes a group of one or more
   characters other than /, a star outside a variable becomes any run of
   characters, any other character is quoted *)
RECURSIVE CompileFrom(_, _)
CompileFrom(p, i) ==
  IF i > Len(p) THEN <<>>
  ELSE IF p[i] = "{" /\ Closing(p, i) # 0
  THEN <<Seg>> \o CompileFrom(p, Closing(p, i) + 1)
  ELSE IF p[i] = "*" THEN <<Star>> \o CompileFrom(p, i + 1)
  ELSE <<Lit(p[i])>> \o CompileFrom(p, i + 1)

ErrCompile == "failed to compile path pattern"

(* regexp.Compile of the expression CompilePathPattern has built: every
   element of it is a quoted character, the group for a variable or the
   run for a star, and a sequence of those is a well-formed expression *)
regexpCompile(re) ==
  IF \A i \in 1..Len(re) : re[i].k \in {"lit", "seg", "any"} THEN Nil ELSE ErrCompile

(* CompilePathPattern, the error it returns *)
CompileError(r) == regexpCompile(CompileFrom(r.path, 1))

(* CompilePathPattern, the names of the variables of the pattern from
   position i on, in the order they are declared *)
RECURSIVE PathVarsFrom(_, _)
PathVarsFrom(p, i) ==
  IF i > Len(p) THEN <<>>
  ELSE IF p[i] = "{" /\ Closing(p, i) # 0
  THEN <<SubSeq(p, i + 1, Closing(p, i) - 1)>> \o PathVarsFrom(p, Closing(p, i) + 1)
  ELSE PathVarsFrom(p, i + 1)

(* CompilePathPattern: the route with pathVars and pathRegex set *)
CompilePathPattern(r) ==
  [path |-> r.path, method |-> r.method,
   pathVars |-> PathVarsFrom(r.path, 1),
   pathRegex |-> CompileFrom(r.path, 1)]

(* pathRegex.MatchString for the anchored expression: elements i.. of re
   match the characters k.. of s up to its end *)
RECURSIVE MatchFrom(_, _, _, _)
MatchFrom(re, i, s, k) ==
  IF i > Len(re) THEN k > Len(s)
  ELSE CASE re[i].k = "lit" ->
              k <= Len(s) /\ s[k] = re[i].c /\ MatchFrom(re, i + 1, s, k + 1)
         [] re[i].k = "seg" ->
              \E m \in k..Len(s) :
                /\ \A q \in k..m : s[q] # "/"
                /\ MatchFrom(re, i + 1, s, m + 1)
         [] OTHER ->
              \E m \in (k - 1)..Len(s) :
                /\ \A q \in k..m : s[q] # "\n"
                /\ MatchFrom(re, i + 1, s, m + 1)

(* the largest of a non-empty set of numbers *)
Max(S) == CHOOSE m \in S : \A n \in S : n <= m

(* pathRegex.FindStringSubmatch, the groups of the match that MatchFrom
   finds: every repetition takes the longest run that lets the rest match *)
RECURSIVE SubmatchFrom(_, _, _, _)
SubmatchFrom(re, i, s, k) ==
  IF i > Len(re) THEN <<>>
  ELSE CASE re[i].k = "lit" -> SubmatchFrom(re, i + 1, s, k + 1)
         [] re[i].k = "seg" ->
              LET m == Max({n \in k..Len(s) :
                              /\ \A q \in k..n : s[q] # "/"
                              /\ MatchFrom(re, i + 1, s, n + 1)})
              IN <<SubSeq(s, k, m)>> \o SubmatchFrom(re, i + 1, s, m + 1)
         [] OTHER ->
              LET m == Max({n \in (k - 1)..Len(s) :
                              /\ \A q \in k..n : s[q] # "\n"
                              /\ MatchFrom(re, i + 1, s, n + 1)})
              IN SubmatchFrom(re, i + 1, s, m + 1)

(* pathRegex.FindStringSubmatch: the whole match followed by the groups,
   nothing when the path does not match *)
FindStringSubmatch(re, s) ==
  IF MatchFrom(re, 1, s, 1) THEN <<s>> \o SubmatchFrom(re, 1, s, 1) ELSE <<>>

(* a map[string]string as its set of pairs, and the nil map *)
NilMap == [nil |-> TRUE, kv |-> {}]
MakeMap(kv) == [nil |-> FALSE, kv |-> kv]

(* slip: the groups are indexed from the whole match *)
ExtractPathVariables_wholeMatch(r, path) ==
  LET matches == FindStringSubmatch(r.pathRegex, path)
  IN IF Len(r.pathVars) = 0 \/ Len(matches) < 2 THEN NilMap
     ELSE MakeMap({ <<r.pathVars[i], matches[i]>> : i \in 1..Len(r.pathVars) })

(* Route.ExtractPathVariables: the loop assigns in order, so the value of a
   name is the one of the last position that declares it *)
ExtractPathVariables(r, path) ==
  LET matches == FindStringSubmatch(r.pathRegex, path)
      set == {i \in 1..Len(r.pathVars) : i + 1 <= Len(matches)}
  IN IF Len(r.pathVars) = 0 \/ Len(matches) < 2 THEN NilMap
     ELSE MakeMap({ <<r.pathVars[i], matches[i + 1]>> :
                      i \in {j \in set : \A n \in set : r.pathVars[n] = r.pathVars[j] => n <= j} })

(* Route.Matches *)
Matches(r, path, method) ==
  IF r.method # <<>> /\ ~EqualFold(r.method, method) THEN FALSE
  ELSE MatchFrom(r.pathRegex, 1, path, 1)

(* calculateSpecificity *)
calculateSpecificity(r) ==
    (IF ~Contains(r.path, <<"{">>) /\ ~Contains(r.path, <<"*">>) THEN 1000 ELSE 0)
  + (IF Contains(r.path, <<"{">>) THEN 500 ELSE 0)
  + (IF Contains(r.path, <<"*">>) THEN 100 ELSE 0)
  + Len(r.path)
  + (IF r.method # <<>> THEN 50 ELSE 0)

(* slip: the less function of the sort ignores the declared method *)
SpecificityLess_noMethod(a, b) ==
  calculateSpecificity([a EXCEPT !.method = <<>>])
    > calculateSpecificity([b EXCEPT !.method = <<>>])

(* NewServiceRouter, the less function handed to sort.Slice *)
SpecificityLess(a, b) == calculateSpecificity(a) > calculateSpecificity(b)

(* the orders sort.Slice can leave a set of routes in: descending by the
   less function, equal elements in any order (the sort is not stable) *)
Sorted(rs) ==
  { t \in [1..Cardinality(rs) -> rs] :
      /\ \A i, j \in 1..Cardinality(rs) : i # j => t[i] # t[j]
      /\ \A i, j \in 1..Cardinality(rs) : i < j => ~SpecificityLess(t[j], t[i]) }

(* NewServiceRouter: the route tables it can build from a configuration *)
NewServiceRouter(config) ==
  Sorted({CompilePathPattern(r) : r \in config})

ErrNoRoute == "no route found"
NoRequest  == [path |-> <<>>, method |-> <<>>]
NoFound    == [route |-> 0, err |-> Nil]

(* slip: the loop keeps the last match *)
FindRoute_lastMatch(rs, path, method) ==
  IF \E i \in 1..Len(rs) : Matches(rs[i], path, method)
  THEN [route |-> CHOOSE i \in 1..Len(rs) :
                    /\ Matches(rs[i], path, method)
                    /\ \A j \in (i + 1)..Len(rs) : ~Matches(rs[j], path, method),
        err |-> Nil]
  ELSE [route |-> 0, err |-> ErrNoRoute]

(* FindRoute: the index of the first route that matches, or the error *)
FindRoute(rs, path, method) ==
  IF \E i \in 1..Len(rs) : Matches(rs[i], path, method)
  THEN [route |-> CHOOSE i \in 1..Len(rs) :
                    /\ Matches(rs[i], path, method)
                    /\ \A j \in 1..(i - 1) : ~Matches(rs[j], path, method),
        err |-> Nil]
  ELSE [route |-> 0, err |-> ErrNoRoute]

(* a request is routed: FindRoute, and for the route found the
   ExtractPathVariables that HandleRequest starts with *)
FindRouteCall(path, method) ==
  /\ routes # <<>>
  /\ rreq = NoRequest
  /\ rreq' = [path |-> path, method |-> method]
  /\ rres' = FindRoute(routes, path, method)
  /\ rvars' = IF FindRoute(routes, path, method).err = Nil
              THEN ExtractPathVariables(routes[FindRoute(routes, path, method).route], path)
              ELSE NilMap
  /\ UNCHANGED <<routes, cbvars, regvars, pxvars, authvars, rqvars>>

(* the handler of the request returns; the next request can be taken *)
RouteDone ==
  /\ rreq # NoRequest
  /\ rreq' = NoRequest
  /\ rres' = NoFound
  /\ rvars' = NilMap
  /\ UNCHANGED <<routes, cbvars, regvars, pxvars, authvars, rqvars>>

(* a process that loads no routes.yaml *)
InitRouter ==
  /\ routes = <<>>
  /\ rreq = NoRequest
  /\ rres = NoFound
  /\ rvars = NilMap

(* NewServiceRouter, the error of the first pattern that does not compile *)
LoadError(config) ==
  IF \E r \in config : CompileError(r) # Nil THEN ErrCompile ELSE Nil

(* NewServiceRouter on a routes.yaml with at most MaxRoutes routes: the
   process starts with a table only when every pattern compiled *)
InitRoutes ==
  /\ \E config \in SUBSET RoutePool :
       /\ Cardinality(config) \in 1..MaxRoutes
       /\ LoadError(config) = Nil
       /\ routes \in NewServiceRouter(config)
  /\ rreq = NoRequest
  /\ rres = NoFound
  /\ rvars = NilMap

(* ---------------------------- proxy handler ---------------------------- *)
(* the routes requests arrive on: target service, and whether
   createProtoMessages knows the (grpc_service, grpc_method) pair *)
Routes ==
  { [service |-> "order-service", typed |-> TRUE],
    [service |-> "order-service", typed |-> FALSE],
    [service |-> "hub-monolith",  typed |-> TRUE] }

NoRoute == [service |-> "none", typed |-> FALSE]

(* gRPC status names conn.Invoke can fail with *)
InvokeErrors == {"Unavailable", "DeadlineExceeded", "NotFound", "Internal"}

(* ServiceRegistry.GetCircuitBreaker: one breaker per service name, built
   with the default thresholds *)
NewBreakers ==
  [s \in ServiceNames |->
     NewCircuitBreaker([MaxFailures |-> 0, ResetTimeout |-> 0, HalfOpenRequests |-> 0])]

GetCircuitBreaker(bs, s) == bs[s]

(* handleGRPCError: the status and code for the text of a gRPC error *)
handleGRPCError(e) ==
  CASE e = "NotFound"         -> [status |-> 404, code |-> "NOT_FOUND"]
    [] e = "AlreadyExists"    -> [status |-> 409, code |-> "ALREADY_EXISTS"]
    [] e = "PermissionDenied" -> [status |-> 403, code |-> "PERMISSION_DENIED"]
    [] e = "Unauthenticated"  -> [status |-> 401, code |-> "UNAUTHENTICATED"]
    [] e = "InvalidArgument"  -> [status |-> 400, code |-> "INVALID_ARGUMENT"]
    [] e = "Unavailable"      -> [status |-> 503, code |-> "SERVICE_UNAVAILABLE"]
    [] e = "DeadlineExceeded" -> [status |-> 504, code |-> "TIMEOUT"]
    [] OTHER                  -> [status |-> 500, code |-> "INTERNAL_ERROR"]

(* what a request leaves alone: direct callers of the breaker and registry *)
ProxyFrame == UNCHANGED <<cb, cpc, cret, cadm, consecFails, lastTrip,
                          rpc, rop, rsvc, rconn, rerr, hstate, rafter, rtvars, rqvars>>

(* the response for an error returned by circuitBreaker.Call *)
AcquireError(e) ==
  IF e = ErrCircuitOpen
  THEN [status |-> 503, code |-> "CIRCUIT_BREAKER_OPEN"]
  ELSE [status |-> 503, code |-> "SERVICE_UNAVAILABLE"]

Respond(h, r) ==
  /\ hpc' = [hpc EXCEPT ![h] = "responded"]
  /\ hresp' = [hresp EXCEPT ![h] = r]

(* HandleRequest up to the admission of circuitBreaker.Call *)
HandleRequest(h, route) ==
  /\ hpc[h] = "idle"
  /\ hroute' = [hroute EXCEPT ![h] = route]
  /\ LET r == beforeRequest(GetCircuitBreaker(breakers, route.service), now)
     IN /\ breakers' = [breakers EXCEPT ![route.service] = r.cb]
        /\ IF r.err = Nil
           THEN /\ hpc' = [hpc EXCEPT ![h] = "acquire"]
                /\ hresp' = hresp
           ELSE Respond(h, AcquireError(r.err))
  /\ UNCHANGED <<hconn, herr, backendFails, now, connections, conns>>
  /\ UNCHANGED authvars
  /\ ProxyFrame

(* the wrapped operation: GetConnection, read path *)
AcquireConnection(h) ==
  /\ hpc[h] = "acquire"
  /\ IF Usable(connections, conns, hroute[h].service)
     THEN /\ hpc' = [hpc EXCEPT ![h] = "after"]
          /\ hconn' = [hconn EXCEPT ![h] = connections[hroute[h].service]]
          /\ herr' = [herr EXCEPT ![h] = Nil]
     ELSE /\ hpc' = [hpc EXCEPT ![h] = "create"]
          /\ UNCHANGED <<hconn, herr>>
  /\ UNCHANGED <<breakers, hroute, hresp, backendFails, now, connections, conns>>
  /\ UNCHANGED authvars
  /\ ProxyFrame

(* the wrapped operation: GetConnection, creation path *)
AcquireCreate(h) ==
  /\ hpc[h] = "create"
  /\ Usable(connections, conns, hroute[h].service) \/ FreeIds(conns) # {}
  /\ LET r == createConnection(connections, conns, hroute[h].service)
     IN /\ connections' = r.connections
        /\ conns' = r.conns
        /\ hconn' = [hconn EXCEPT ![h] = r.conn]
        /\ herr' = [herr EXCEPT ![h] = r.err]
  /\ hpc' = [hpc EXCEPT ![h] = "after"]
  /\ UNCHANGED <<breakers, hroute, hresp, backendFails, now>>
  /\ UNCHANGED authvars
  /\ ProxyFrame

(* afterRequest of circuitBreaker.Call, and the 503 when acquisition failed *)
AcquireDone(h) ==
  /\ hpc[h] = "after"
  /\ LET s == hroute[h].service
     IN /\ herr[h] # Nil => breakers[s].failures < MaxCount
        /\ breakers' = [breakers EXCEPT ![s] = afterRequest(breakers[s], herr[h], now)]
  /\ IF herr[h] # Nil
     THEN Respond(h, AcquireError(herr[h]))
     ELSE /\ hpc' = [hpc EXCEPT ![h] = "build"]
          /\ hresp' = hresp
  /\ UNCHANGED <<hroute, hconn, herr, backendFails, now, connections, conns>>
  /\ UNCHANGED authvars
  /\ ProxyFrame

(* io.ReadAll of the body and createProtoMessages *)
BuildRequest(h, bodyOk) ==
  /\ hpc[h] = "build"
  /\ IF ~bodyOk
     THEN Respond(h, [status |-> 400, code |-> "INVALID_REQUEST"])
     ELSE IF ~hroute[h].typed
     THEN Respond(h, [status |-> 500, code |-> "INTERNAL_ERROR"])
     ELSE /\ hpc' = [hpc EXCEPT ![h] = "invoke"]
          /\ hresp' = hresp
  /\ UNCHANGED <<breakers, hroute, hconn, herr, backendFails, now, connections, conns>>
  /\ UNCHANGED authvars
  /\ ProxyFrame

(* slip: the result of conn.Invoke is handed to the breaker of the service *)
InvokeBackend_reported(h, e) ==
  /\ hpc[h] = "invoke"
  /\ e # Nil => breakers[hroute[h].service].failures < MaxCount
  /\ IF e # Nil
     THEN Respond(h, handleGRPCError(e))
     ELSE Respond(h, [status |-> 200, code |-> "OK"])
  /\ backendFails' =
       [backendFails EXCEPT ![hroute[h].service] =
          IF e = Nil THEN 0
          ELSE IF @ < DefaultMaxFailures THEN @ + 1 ELSE @]
  /\ breakers' = [breakers EXCEPT ![hroute[h].service] =
                    afterRequest(@, IF e = Nil THEN Nil ELSE OpErr, now)]
  /\ UNCHANGED <<hroute, hconn, herr, now, connections, conns>>
  /\ UNCHANGED authvars
  /\ ProxyFrame

(* conn.Invoke returned e, and the response that follows *)
InvokeBackend(h, e) ==
  /\ hpc[h] = "invoke"
  /\ IF e # Nil
     THEN Respond(h, handleGRPCError(e))
     ELSE Respond(h, [status |-> 200, code |-> "OK"])
  /\ backendFails' =
       [backendFails EXCEPT ![hroute[h].service] =
          IF e = Nil THEN 0
          ELSE IF @ < DefaultMaxFailures THEN @ + 1 ELSE @]
  /\ UNCHANGED <<breakers, hroute, hconn, herr, now, connections, conns>>
  /\ UNCHANGED authvars
  /\ ProxyFrame

(* the response has been delivered; the handler takes the next request *)
Responded(h) ==
  /\ hpc[h] = "responded"
  /\ hpc' = [hpc EXCEPT ![h] = "idle"]
  /\ hroute' = [hroute EXCEPT ![h] = NoRoute]
  /\ hconn' = [hconn EXCEPT ![h] = 0]
  /\ herr' = [herr EXCEPT ![h] = Nil]
  /\ hresp' = [hresp EXCEPT ![h] = NoResp]
  /\ UNCHANGED <<breakers, backendFails, now, connections, conns>>
  /\ UNCHANGED authvars
  /\ ProxyFrame

ProxyTick ==
  /\ now + TickStep <= MaxTime
  /\ now' = now + TickStep
  /\ UNCHANGED <<breakers, hpc, hroute, hconn, herr, hresp, backendFails,
                 connections, conns>>
  /\ UNCHANGED authvars
  /\ ProxyFrame

InitHandlers ==
  /\ breakers = NewBreakers
  /\ hpc = [h \in Handlers |-> "idle"]
  /\ hroute = [h \in Handlers |-> NoRoute]
  /\ hconn = [h \in Handlers |-> 0]
  /\ herr = [h \in Handlers |-> Nil]
  /\ hresp = [h \in Handlers |-> NoResp]
  /\ backendFails = [s \in ServiceNames |-> 0]

(* ------------------------- the request pipeline ------------------------ *)
(* One request through the dynamic route handler and HandleRequest, with
   what its collaborators answer as inputs: FindRoute, the auth
   middleware, circuitBreaker.Call around GetConnection, the body, the
   backend, and the serializer of the response. *)

(* the routes FindRoute hands over: target service, the pair
   grpc_service.grpc_method, and auth_required *)
FoundRoutes ==
  { [service |-> "hub-monolith",        pair |-> "BalanceService.GetBalance",       auth |-> TRUE],
    [service |-> "order-service",       pair |-> "OrderService.SubmitOrder",        auth |-> TRUE],
    [service |-> "market-data-service", pair |-> "MarketDataService.GetMarketData", auth |-> FALSE],
    [service |-> "user-service",        pair |-> "UserService.GetProfile",          auth |-> TRUE] }

NoFoundRoute == [service |-> "none", pair |-> "none", auth |-> FALSE]

(* createProtoMessages: the pairs of its switch, and those whose request
   is unmarshalled from the body *)
TypedPairs ==
  { "BalanceService.GetBalance", "PortfolioService.GetPortfolioSummary",
    "OrderService.SubmitOrder", "OrderService.GetOrderDetails",
    "OrderService.GetOrderStatus", "OrderService.CancelOrder",
    "PositionService.GetPositions", "PositionService.GetPositionAggregation",
    "MarketDataService.GetMarketData", "MarketDataService.GetAssetDetails",
    "MarketDataService.GetBatchMarketData" }

BodyPairs == {"OrderService.SubmitOrder", "MarketDataService.GetBatchMarketData"}

(* request bodies: none, a JSON document of the request type, other bytes *)
Bodies == {"empty", "json", "garbage"}

ErrUnsupported == "unsupported service method"
ErrUnmarshal   == "failed to unmarshal request"

(* slip: an unknown pair is sent on with a generic request *)
createProtoMessages_generic(pair, body) ==
  IF pair \in BodyPairs /\ body = "garbage" THEN ErrUnmarshal ELSE Nil

(* createProtoMessages, the error it returns *)
createProtoMessages(pair, body) ==
  IF pair \notin TypedPairs THEN ErrUnsupported
  ELSE IF pair \in BodyPairs /\ body = "garbage" THEN ErrUnmarshal
  ELSE Nil

(* JSON values: a string, null, an object, or the api_response object with
   its success member ("none": no boolean success member) *)
Str(s)       == [t |-> "str",  s |-> s,  success |-> "none"]
Null         == [t |-> "null", s |-> "", success |-> "none"]
Object(s)    == [t |-> "obj",  s |-> s,  success |-> "none"]
Envelope(ok) == [t |-> "env",  s |-> "", success |-> ok]

Member(k, v) == [k |-> k, v |-> v]

(* a serialized JSON text: an object with its members in the order they
   were written, or a single value; enc names the encoder that wrote it *)
ProtoJSON(kv) == [top |-> "obj",   kv |-> kv,   v |-> Null, enc |-> "protojson"]
JSONObj(kv)   == [top |-> "obj",   kv |-> kv,   v |-> Null, enc |-> "encoding/json"]
JSONVal(v)    == [top |-> "val",   kv |-> <<>>, v |-> v,    enc |-> "encoding/json"]
ErrorBody(c)  == [top |-> "error", kv |-> <<>>, v |-> Str(c), enc |-> "encoding/json"]

(* no message: the response before the backend has filled it in *)
NoMessage == ProtoJSON(<<>>)

(* the member names of the responses, in the order encoding/json sorts them *)
KeyOrder == <<"api_response", "balance", "orders", "total">>
Rank(k)  == CHOOSE i \in 1..Len(KeyOrder) : KeyOrder[i] = k

(* the backend responses as protojson writes them, members in field order *)
BackendResponses ==
  { ProtoJSON(<<Member("api_response", Envelope("true")), Member("balance", Str("100"))>>),
    ProtoJSON(<<Member("total", Str("2")), Member("orders", Object("[..]")),
                Member("api_response", Envelope("true"))>>),
    ProtoJSON(<<Member("total", Str("0")), Member("api_response", Envelope("false")),
                Member("orders", Object("[]"))>>),
    ProtoJSON(<<Member("balance", Str("")), Member("api_response", Envelope("false"))>>),
    ProtoJSON(<<Member("api_response", Envelope("true"))>>),
    ProtoJSON(<<Member("orders", Object("[..]")), Member("api_response", Null)>>) }

(* json.Marshal of a map: the members sorted by name *)
SortMembers(kv) ==
  LET ks     == {kv[i].k : i \in 1..Len(kv)}
      at(n)  == CHOOSE k \in ks : Cardinality({j \in ks : Rank(j) < Rank(k)}) = n - 1
      val(k) == kv[CHOOSE i \in 1..Len(kv) : kv[i].k = k].v
  IN [n \in 1..Cardinality(ks) |-> Member(at(n), val(at(n)))]

(* delete(response, key) *)
Delete(kv, key) == SelectSeq(kv, LAMBDA m : m.k # key)

(* response["api_response"].(map[string]interface{}) *)
HasEnvelope(kv) == \E i \in 1..Len(kv) : kv[i].k = "api_response" /\ kv[i].v.t = "env"
EnvelopeOf(kv)  == kv[CHOOSE i \in 1..Len(kv) : kv[i].k = "api_response"].v

(* slip: the envelope is removed whatever it reports *)
unwrapAPIResponse_always(doc) ==
  IF HasEnvelope(doc.kv)
  THEN LET rest == Delete(doc.kv, "api_response")
       IN IF Len(rest) = 1 THEN JSONVal(rest[1].v) ELSE JSONObj(SortMembers(rest))
  ELSE JSONObj(SortMembers(doc.kv))

(* unwrapAPIResponse: the bytes written for the bytes protojson produced *)
unwrapAPIResponse(doc) ==
  IF HasEnvelope(doc.kv) /\ EnvelopeOf(doc.kv).success = "false" THEN doc
  ELSE IF HasEnvelope(doc.kv)
  THEN LET rest == Delete(doc.kv, "api_response")
       IN IF Len(rest) = 1 THEN JSONVal(rest[1].v) ELSE JSONObj(SortMembers(rest))
  ELSE JSONObj(SortMembers(doc.kv))

(* what a request did, in order: calls to collaborators, metrics, and
   calls on the http.ResponseWriter *)
Event(ev, arg)     == [ev |-> ev, arg |-> arg, status |-> 0, msg |-> ""]
WriteHeader(status) == [ev |-> "WriteHeader", arg |-> "", status |-> status, msg |-> ""]

(* err.Error(): an error of the model is named by its text *)
ErrorText(e) == e

(* sendError and sendJSON for the error envelope: header, then the body
   with the code and the message *)
sendError(r, message) ==
  <<WriteHeader(r.status), [ev |-> "Write", arg |-> r.code, status |-> 0, msg |-> message]>>

(* sendProtoJSON: the header is written first; when the message cannot be
   serialized, sendError follows on the same ResponseWriter *)
sendProtoJSON(statusCode, doc, marshalOk) ==
  IF marshalOk
  THEN [events |-> <<WriteHeader(statusCode), Event("Write", "payload")>>,
        bodies |-> <<unwrapAPIResponse(doc)>>]
  ELSE [events |-> <<WriteHeader(statusCode)>>
                     \o sendError([status |-> 500, code |-> "INTERNAL_ERROR"],
                                  "Failed to encode response"),
        bodies |-> <<ErrorBody("INTERNAL_ERROR")>>]

(* the message sent for an error returned by circuitBreaker.Call *)
AcquireMessage(e) ==
  IF e = ErrCircuitOpen
  THEN "Service is temporarily unavailable (circuit breaker open)"
  ELSE "Service is unavailable"

(* what circuitBreaker.Call around GetConnection can return: a rejection
   by beforeRequest, or the result of GetConnection *)
CallRejections == {ErrCircuitOpen, ErrTooManyRequests}
CallResults ==
  [admitted : {FALSE}, err : CallRejections]
    \cup [admitted : {TRUE}, err : {Nil, ErrNotConfigured, ErrNewClient}]

(* what the auth middleware does with a request: no usable header, a
   cached token, a token the user service accepts, one it rejects *)
AuthOutcomes == {"missing", "cached", "accepted", "rejected"}

RequestFrame == UNCHANGED <<cbvars, regvars, pxvars, authvars, rtvars>>

Emit(h, events, bodies, pc) ==
  /\ qtrace' = [qtrace EXCEPT ![h] = @ \o events]
  /\ qbody' = [qbody EXCEPT ![h] = @ \o bodies]
  /\ qpc' = [qpc EXCEPT ![h] = pc]

(* the dynamic route handler: FindRoute, and 404 when no route matches *)
RouteRequest(h, found) ==
  /\ qpc[h] = "idle"
  /\ qroute' = [qroute EXCEPT ![h] = found]
  /\ IF found = NoFoundRoute
     THEN Emit(h, <<Event("FindRoute", ErrNoRoute)>>
                    \o sendError([status |-> 404, code |-> "ROUTE_NOT_FOUND"], "Route not found"),
               <<ErrorBody("ROUTE_NOT_FOUND")>>, "done")
     ELSE Emit(h, <<Event("FindRoute", Nil)>>, <<>>,
               IF found.auth THEN "auth" ELSE "handle")
  /\ UNCHANGED qresp
  /\ RequestFrame

(* AuthMiddleware.Middleware on a route that requires authentication *)
Authenticate(h, outcome) ==
  /\ qpc[h] = "auth"
  /\ CASE outcome = "missing" ->
            Emit(h, <<Event("extractToken", ErrHeaderNotFound)>> \o sendError(ExtractionFailed,
                              "Authorization token is required"),
                 <<ErrorBody(ExtractionFailed.code)>>, "done")
       [] outcome = "cached" ->
            Emit(h, <<Event("extractToken", Nil), Event("ValidateToken", Nil)>>, <<>>, "handle")
       [] outcome = "accepted" ->
            Emit(h, <<Event("extractToken", Nil), Event("userClient.ValidateToken", Nil),
                      Event("ValidateToken", Nil)>>, <<>>, "handle")
       [] OTHER ->
            Emit(h, <<Event("extractToken", Nil), Event("userClient.ValidateToken", ErrNotValid),
                      Event("ValidateToken", ErrNotValid)>> \o sendError(ValidationFailed, "Token expired or invalid"),
                 <<ErrorBody(ValidationFailed.code)>>, "done")
  /\ UNCHANGED <<qroute, qresp>>
  /\ RequestFrame

(* slip: the handler goes on after it has answered a failed acquisition *)
Acquire_continues(h, res) ==
  /\ qpc[h] = "handle"
  /\ LET calls == (IF res.admitted THEN <<Event("GetConnection", res.err)>> ELSE <<>>)
                    \o <<Event("Call", res.err)>>
     IN IF res.err = Nil
        THEN Emit(h, calls, <<>>, "build")
        ELSE Emit(h, calls \o <<Event("RecordRequest", "false")>>
                       \o sendError(AcquireError(res.err), AcquireMessage(res.err)),
                  <<ErrorBody(AcquireError(res.err).code)>>, "build")
  /\ UNCHANGED <<qroute, qresp>>
  /\ RequestFrame

(* HandleRequest: circuitBreaker.Call around GetConnection *)
Acquire(h, res) ==
  /\ qpc[h] = "handle"
  /\ LET calls == (IF res.admitted THEN <<Event("GetConnection", res.err)>> ELSE <<>>)
                    \o <<Event("Call", res.err)>>
     IN IF res.err = Nil
        THEN Emit(h, calls, <<>>, "build")
        ELSE Emit(h, calls
                       \o (IF res.err = ErrCircuitOpen
                           THEN <<Event("RecordCircuitBreakerTrip", "")>> ELSE <<>>)
                       \o <<Event("RecordRequest", "false")>>
                       \o sendError(AcquireError(res.err), AcquireMessage(res.err)),
                  <<ErrorBody(AcquireError(res.err).code)>>, "done")
  /\ UNCHANGED <<qroute, qresp>>
  /\ RequestFrame

(* HandleRequest: io.ReadAll of the body and createProtoMessages *)
Build(h, readOk, body) ==
  /\ qpc[h] = "build"
  /\ IF ~readOk
     THEN Emit(h, <<Event("ReadAll", "error")>>
                    \o sendError([status |-> 400, code |-> "INVALID_REQUEST"],
                              "Failed to read request body"),
               <<ErrorBody("INVALID_REQUEST")>>, "done")
     ELSE LET err == createProtoMessages(qroute[h].pair, body)
          IN IF err # Nil
             THEN Emit(h, <<Event("ReadAll", Nil), Event("createProtoMessages", err)>>
                            \o sendError([status |-> 500, code |-> "INTERNAL_ERROR"], ErrorText(err)),
                       <<ErrorBody("INTERNAL_ERROR")>>, "done")
             ELSE Emit(h, <<Event("ReadAll", Nil), Event("createProtoMessages", Nil)>>,
                       <<>>, "invoke")
  /\ UNCHANGED <<qroute, qresp>>
  /\ RequestFrame

(* HandleRequest: conn.Invoke and the response that follows *)
Invoke(h, e, response, marshalOk) ==
  /\ qpc[h] = "invoke"
  /\ IF e # Nil
     THEN Emit(h, <<Event("Invoke", e)>> \o sendError(handleGRPCError(e), ErrorText(e)),
               <<ErrorBody(handleGRPCError(e).code)>>, "done")
     ELSE LET out == sendProtoJSON(200, response, marshalOk)
          IN Emit(h, <<Event("Invoke", Nil), Event("RecordRequest", "true")>> \o out.events,
                  out.bodies, "done")
  /\ qresp' = [qresp EXCEPT ![h] = IF e = Nil THEN response ELSE NoMessage]
  /\ UNCHANGED qroute
  /\ RequestFrame

(* the handler has returned; the next request is taken *)
RequestDone(h) ==
  /\ qpc[h] = "done"
  /\ qpc' = [qpc EXCEPT ![h] = "idle"]
  /\ qroute' = [qroute EXCEPT ![h] = NoFoundRoute]
  /\ qtrace' = [qtrace EXCEPT ![h] = <<>>]
  /\ qbody' = [qbody EXCEPT ![h] = <<>>]
  /\ qresp' = [qresp EXCEPT ![h] = NoMessage]
  /\ RequestFrame

InitRequests ==
  /\ qpc = [h \in Handlers |-> "idle"]
  /\ qroute = [h \in Handlers |-> NoFoundRoute]
  /\ qtrace = [h \in Handlers |-> <<>>]
  /\ qbody = [h \in Handlers |-> <<>>]
  /\ qresp = [h \in Handlers |-> NoMessage]

InitReg ==
  /\ InitRegistry
  /\ InitHandlers
  /\ InitAuth
  /\ InitRequests
  /\ redisClient = TRUE
  /\ InitRouter
  /\ cb = NewCircuitBreaker([MaxFailures |-> 0, ResetTimeout |-> 0, HalfOpenRequests |-> 0])
  /\ now = 0
  /\ cpc = [c \in Callers |-> "idle"]
  /\ cret = [c \in Callers |-> "none"]
  /\ cadm = [c \in Callers |-> "none"]
  /\ consecFails = 0
  /\ lastTrip = "none"

NextReg ==
  \/ \E c \in RegCallers, s \in ServiceNames : GetConnection(c, "GetConnection", s)
  \/ \E c \in RegCallers, s \in ServiceNames : GetConnection(c, "HealthCheck", s)
  \/ \E c \in RegCallers : CreateConnection(c)
  \/ \E c \in RegCallers : HealthState(c)
  \/ \E c \in RegCallers : WaitChanged(c)
  \/ \E c \in RegCallers : WaitTimeout(c)
  \/ \E c \in RegCallers : Close(c)
  \/ \E c \in RegCallers : RegReturn(c)
  \/ \E i \in ConnIds : ConnStateChange(i)

SpecReg == InitReg /\ [][NextReg]_vars

(* the registry between start and shutdown: connections to every known
   service are requested and the registry is closed, any number of times *)
NextClose ==
  \/ \E c \in RegCallers, s \in KnownServices : GetConnection(c, "GetConnection", s)
  \/ \E c \in RegCallers : CreateConnection(c)
  \/ \E c \in RegCallers : Close(c)
  \/ \E c \in RegCallers : RegReturn(c)
  \/ \E i \in ConnIds : ConnStateChange(i)

SpecClose == InitReg /\ [][NextClose]_vars

NextProxy ==
  \/ \E h \in Handlers, route \in Routes : HandleRequest(h, route)
  \/ \E h \in Handlers : AcquireConnection(h)
  \/ \E h \in Handlers : AcquireCreate(h)
  \/ \E h \in Handlers : AcquireDone(h)
  \/ \E h \in Handlers, bodyOk \in BOOLEAN : BuildRequest(h, bodyOk)
  \/ \E h \in Handlers, e \in InvokeErrors \cup {Nil} : InvokeBackend(h, e)
  \/ \E h \in Handlers : Responded(h)
  \/ ProxyTick

SpecProxy == InitReg /\ [][NextProxy]_vars

(* ----------------------- the requests alone --------------------------- *)
NextRequest ==
  \/ \E h \in Handlers, found \in FoundRoutes \cup {NoFoundRoute} : RouteRequest(h, found)
  \/ \E h \in Handlers, outcome \in AuthOutcomes : Authenticate(h, outcome)
  \/ \E h \in Handlers, res \in CallResults : Acquire(h, res)
  \/ \E h \in Handlers, readOk \in BOOLEAN, body \in Bodies : Build(h, readOk, body)
  \/ \E h \in Handlers, e \in InvokeErrors \cup {Nil}, response \in BackendResponses,
        marshalOk \in BOOLEAN : Invoke(h, e, response, marshalOk)
  \/ \E h \in Handlers : RequestDone(h)

SpecRequest == InitReg /\ [][NextRequest]_vars

(* ----------------------- the validators alone -------------------------- *)
InitValidate ==
  /\ InitRegistry
  /\ InitHandlers
  /\ InitAuth
  /\ InitRequests
  /\ redisClient \in BOOLEAN
  /\ InitRouter
  /\ cb = NewCircuitBreaker([MaxFailures |-> 0, ResetTimeout |-> 0, HalfOpenRequests |-> 0])
  /\ now = 0
  /\ cpc = [c \in Callers |-> "idle"]
  /\ cret = [c \in Callers |-> "none"]
  /\ cadm = [c \in Callers |-> "none"]
  /\ consecFails = 0
  /\ lastTrip = "none"

NextAuth ==
  \/ \E v \in Validators, hdr \in AuthHeaders, down \in BOOLEAN : Middleware(v, hdr, down)
  \/ \E v \in Validators : \E reply \in IdentityReplies(vtok[v]) : CallUserService(v, reply)
  \/ \E v \in Validators, down \in BOOLEAN : SaveToCache(v, down)
  \/ \E v \in Validators, hdr \in AuthHeaders : PublicRequest(v, hdr)
  \/ \E v \in Validators : MiddlewareReturn(v)
  \/ AuthTick

SpecAuth == InitValidate /\ [][NextAuth]_vars

(* ------------------------- the router alone ---------------------------- *)
InitRouteTable ==
  /\ InitRegistry
  /\ InitHandlers
  /\ InitAuth
  /\ InitRequests
  /\ redisClient = TRUE
  /\ InitRoutes
  /\ cb = NewCircuitBreaker([MaxFailures |-> 0, ResetTimeout |-> 0, HalfOpenRequests |-> 0])
  /\ now = 0
  /\ cpc = [c \in Callers |-> "idle"]
  /\ cret = [c \in Callers |-> "none"]
  /\ cadm = [c \in Callers |-> "none"]
  /\ consecFails = 0
  /\ lastTrip = "none"

NextRoute ==
  \/ \E path \in RequestPaths, method \in RequestMethods : FindRouteCall(path, method)
  \/ RouteDone

SpecRoute == InitRouteTable /\ [][NextRoute]_vars

(* ---------------------- actions of the breaker ------------------------- *)
(* Call, first half: beforeRequest under the lock *)
CallBegin(c) ==
  /\ cpc[c] = "idle"
  /\ LET r == beforeRequest(cb, now)
     IN /\ cb' = r.cb
        /\ IF r.err = Nil
           THEN /\ cpc' = [cpc EXCEPT ![c] = "running"]
                /\ cadm' = [cadm EXCEPT ![c] = r.cb.state]
                /\ cret' = cret
           ELSE /\ cpc' = [cpc EXCEPT ![c] = "returned"]
                /\ cret' = [cret EXCEPT ![c] = r.err]
                /\ cadm' = cadm
  /\ UNCHANGED <<now, consecFails, lastTrip, regvars, pxvars, authvars, rtvars, rqvars>>

(* Call, second half: fn() has returned err, afterRequest under the lock *)
CallEnd(c, err) ==
  /\ cpc[c] = "running"
  /\ err # Nil => cb.failures < MaxCount
  /\ cb' = afterRequest(cb, err, now)
  /\ cpc' = [cpc EXCEPT ![c] = "returned"]
  /\ cret' = [cret EXCEPT ![c] = err]
  /\ cadm' = [cadm EXCEPT ![c] = "none"]
  /\ consecFails' = IF err # Nil THEN Bump(consecFails, cb) ELSE 0
  /\ lastTrip' = IF cb.state # StateOpen /\ cb'.state = StateOpen
                 THEN cb.state ELSE lastTrip
  /\ UNCHANGED <<now, regvars, pxvars, authvars, rtvars, rqvars>>

(* the caller has consumed the result and may call again *)
CallReturn(c) ==
  /\ cpc[c] = "returned"
  /\ cpc' = [cpc EXCEPT ![c] = "idle"]
  /\ cret' = [cret EXCEPT ![c] = "none"]
  /\ UNCHANGED <<cb, now, cadm, consecFails, lastTrip, regvars, pxvars, authvars, rtvars, rqvars>>

ResetCall ==
  /\ cb' = Reset(cb)
  /\ consecFails' = 0
  /\ UNCHANGED <<now, cpc, cret, cadm, lastTrip, regvars, pxvars, authvars, rtvars, rqvars>>

Tick ==
  /\ now + TickStep <= MaxTime
  /\ now' = now + TickStep
  /\ UNCHANGED <<cb, cpc, cret, cadm, consecFails, lastTrip, regvars, pxvars, authvars, rtvars, rqvars>>

InitCB ==
  /\ cb \in {NewCircuitBreaker(cfg) : cfg \in CBConfigs}
  /\ now = 0
  /\ cpc = [c \in Callers |-> "idle"]
  /\ cret = [c \in Callers |-> "none"]
  /\ cadm = [c \in Callers |-> "none"]
  /\ consecFails = 0
  /\ lastTrip = "none"
  /\ InitRegistry
  /\ InitHandlers
  /\ InitAuth
  /\ InitRequests
  /\ redisClient = TRUE
  /\ InitRouter

NextCB ==
  \/ \E c \in Callers : CallBegin(c)
  \/ \E c \in Callers : CallEnd(c, Nil)
  \/ \E c \in Callers : CallEnd(c, OpErr)
  \/ \E c \in Callers : CallReturn(c)
  \/ ResetCall
  \/ Tick

SpecCB == InitCB /\ [][NextCB]_vars

(* the clock advances past the last instant the model names: from there on
   times are kept relative to now, and a failure time that is already
   further back than resetTimeout stays where it is *)
TickLate ==
  /\ now + TickStep > MaxTime
  /\ now - cb.lastFailureTime <= cb.resetTimeout
  /\ cb' = [cb EXCEPT !.lastFailureTime = @ - TickStep]
  /\ UNCHANGED <<now, cpc, cret, cadm, consecFails, lastTrip, regvars, pxvars, authvars, rtvars, rqvars>>

(* fn() fails once more when the failure counter has reached the largest
   value the model names: the counter stays there (outside Closed its value
   decides nothing until the breaker closes and clears it) *)
CallEndLate(c) ==
  /\ cpc[c] = "running"
  /\ cb.failures >= MaxCount
  /\ cb' = [afterRequest(cb, OpErr, now) EXCEPT !.failures = MaxCount]
  /\ cpc' = [cpc EXCEPT ![c] = "returned"]
  /\ cret' = [cret EXCEPT ![c] = OpErr]
  /\ cadm' = [cadm EXCEPT ![c] = "none"]
  /\ consecFails' = Bump(consecFails, cb)
  /\ lastTrip' = IF cb.state # StateOpen /\ cb'.state = StateOpen
                 THEN cb.state ELSE lastTrip
  /\ UNCHANGED <<now, regvars, pxvars, authvars, rtvars, rqvars>>

NextCBLive ==
  \/ \E c \in Callers : CallBegin(c)
  \/ \E c \in Callers : CallEnd(c, Nil)
  \/ \E c \in Callers : CallEnd(c, OpErr)
  \/ \E c \in Callers : CallEndLate(c)
  \/ \E c \in Callers : CallReturn(c)
  \/ ResetCall
  \/ Tick
  \/ TickLate

(* every caller calls again and again, every wrapped operation returns, and
   time passes *)
FairCB ==
  /\ \A c \in Callers : WF_vars(CallBegin(c))
  /\ \A c \in Callers : WF_vars(CallEnd(c, Nil) \/ CallEnd(c, OpErr) \/ CallEndLate(c))
  /\ \A c \in Callers : WF_vars(CallReturn(c))
  /\ WF_vars(Tick)
  /\ WF_vars(TickLate)

SpecCBLive == InitCB /\ [][NextCBLive]_vars /\ FairCB

(* ----------------------- steps of a Call, as seen by callers ----------- *)
Arrives(c)     == cpc[c] = "idle" /\ cpc'[c] # "idle"
Admitted(c)    == cpc[c] = "idle" /\ cpc'[c] = "running"
Rejected(c, e) == cpc[c] = "idle" /\ cpc'[c] = "returned" /\ cret'[c] = e
Fails(c)       == cpc[c] = "running" /\ cpc'[c] = "returned" /\ cret'[c] = OpErr
Succeeds(c)    == cpc[c] = "running" /\ cpc'[c] = "returned" /\ cret'[c] = Nil
Elapsed        == now - cb.lastFailureTime
Probes         == {c \in Callers : cpc[c] = "running" /\ cadm[c] = StateHalfOpen}

(* C1: once maxFailures executed Calls in a row have failed (no success and
   no Reset in between) the breaker is Open, and every Call arriving while
   at most resetTimeout has elapsed since the last recorded failure is
   rejected with ErrCircuitOpen and its operation is not run. *)
C1_TripThenReject ==
  /\ [][\A c \in Callers :
          (Fails(c) /\ consecFails' >= cb.maxFailures) => cb'.state = StateOpen]_vars
  /\ [](consecFails >= cb.maxFailures /\ Elapsed <= cb.resetTimeout
          => cb.state = StateOpen)
  /\ [][\A c \in Callers :
          (Arrives(c) /\ consecFails >= cb.maxFailures /\ Elapsed <= cb.resetTimeout)
            => (Rejected(c, ErrCircuitOpen) /\ cb'.state = StateOpen)]_vars

C1_Witness ==
  /\ consecFails >= cb.maxFailures
  /\ cb.state = StateOpen
  /\ \E c \in Callers : cpc[c] = "returned" /\ cret[c] = ErrCircuitOpen

(* C2: a Call arriving while the breaker is Open moves it to HalfOpen with
   probe-success counter 0 and runs the operation when more than resetTimeout
   has elapsed since lastFailureTime; otherwise it is rejected with
   ErrCircuitOpen and the breaker stays Open. *)
C2_OpenAdmission ==
  [][\A c \in Callers :
       (Arrives(c) /\ cb.state = StateOpen) =>
          IF Elapsed > cb.resetTimeout
          THEN /\ Admitted(c)
               /\ cb'.state = StateHalfOpen
               /\ cb'.successCount = 0
          ELSE /\ Rejected(c, ErrCircuitOpen)
               /\ cb'.state = StateOpen]_vars

C2_Witness ==
  /\ cb.state = StateHalfOpen
  /\ cb.successCount = 0
  /\ \E c, d \in Callers :
        /\ cpc[c] = "running" /\ cadm[c] = StateHalfOpen
        /\ cpc[d] = "returned" /\ cret[d] = ErrCircuitOpen

(* C3 (as claimed): the successful Call that brings the probe-success counter
   to halfOpenRequests closes the breaker with both counters at 0. *)
C3_CloseResetsAllCounters ==
  [][\A c \in Callers :
       (Succeeds(c) /\ cb.state = StateHalfOpen
          /\ cb.successCount + 1 >= cb.halfOpenRequests)
         => /\ cb'.state = StateClosed
            /\ cb'.failures = 0
            /\ cb'.successCount = 0]_vars

(* C4: a Call that fails while the breaker is HalfOpen moves it to Open at
   once, records the failure time and zeroes the probe-success counter; Calls
   arriving after such a trip are rejected with ErrCircuitOpen until more than
   resetTimeout has elapsed. *)
C4_HalfOpenFailureReopens ==
  /\ [][\A c \in Callers :
          (Fails(c) /\ cb.state = StateHalfOpen)
            => /\ cb'.state = StateOpen
               /\ cb'.lastFailureTime = now
               /\ cb'.successCount = 0]_vars
  /\ [][\A c \in Callers :
          (Arrives(c) /\ cb.state = StateOpen /\ lastTrip = StateHalfOpen
             /\ Elapsed <= cb.resetTimeout)
            => Rejected(c, ErrCircuitOpen)]_vars

C4_Witness ==
  /\ cb.state = StateOpen
  /\ lastTrip = StateHalfOpen
  /\ \E c \in Callers : cpc[c] = "returned" /\ cret[c] = ErrCircuitOpen

(* the four transitions of the state machine, with their conditions *)
CallTransition ==
  \/ /\ cb.state = StateClosed /\ cb'.state = StateOpen
     /\ cb'.failures >= cb.maxFailures
     /\ \E c \in Callers : Fails(c)
  \/ /\ cb.state = StateOpen /\ cb'.state = StateHalfOpen
     /\ Elapsed > cb.resetTimeout
     /\ \E c \in Callers : Admitted(c)
  \/ /\ cb.state = StateHalfOpen /\ cb'.state = StateClosed
     /\ cb'.successCount >= cb.halfOpenRequests
     /\ \E c \in Callers : Succeeds(c)
  \/ /\ cb.state = StateHalfOpen /\ cb'.state = StateOpen
     /\ \E c \in Callers : Fails(c)

(* C5 (as claimed): the state changes only by the four transitions. *)
C5_OnlyFourTransitions ==
  [][cb'.state # cb.state => CallTransition]_vars

(* C5 (amended): the state changes only by the four transitions of Call, or
   by Reset, which moves any state to Closed with both counters 0 and touches
   no Call in progress. *)
C5_TransitionsOrReset ==
  [][cb'.state # cb.state =>
       \/ CallTransition
       \/ /\ cb'.state = StateClosed
          /\ cb'.failures = 0
          /\ cb'.successCount = 0
          /\ cpc' = cpc]_vars

C5_Witness ==
  /\ cb.state = StateClosed
  /\ lastTrip = StateHalfOpen
  /\ cb.successCount = cb.halfOpenRequests

(* C6 (as claimed): a Call arriving while the breaker is HalfOpen and
   halfOpenRequests probes are in progress is rejected with
   ErrTooManyRequests and its operation is not run. *)
C6_ProbeLimit ==
  [][\A c \in Callers :
       (Arrives(c) /\ cb.state = StateHalfOpen
          /\ Cardinality(Probes) >= cb.halfOpenRequests)
         => Rejected(c, ErrTooManyRequests)]_vars

(* ------------------------- registry properties ------------------------- *)
Created(s) == {i \in ConnIds : conns[i].svc = s}
Live(s)    == {i \in Created(s) : conns[i].state # "SHUTDOWN"}
GotConnection(c, s) ==
  /\ rpc[c] = "returned" /\ rop[c] = "GetConnection"
  /\ rsvc[c] = s /\ rerr[c] = Nil

(* C8: as long as no connection of a service has been closed, concurrent
   GetConnection calls for it create at most one connection, exactly one once
   a caller has been served, and every served caller holds the stored one. *)
C8_OneDial ==
  \A s \in ServiceNames :
    Live(s) = Created(s) =>
      /\ Cardinality(Created(s)) <= 1
      /\ \A c \in RegCallers :
           GotConnection(c, s) =>
             /\ Cardinality(Created(s)) = 1
             /\ rconn[c] = connections[s]
             /\ rconn[c] \in Created(s)

C8_Witness ==
  \E s \in ServiceNames : \E c, d \in RegCallers :
    /\ GotConnection(c, s)
    /\ rpc[d] = "create" /\ rsvc[d] = s
    /\ Live(s) = Created(s)

(* C9: at most one connection per service name is not Shutdown, and a
   connection is created for a name only when the stored one is absent or
   already Shutdown. *)
C9_OneLiveConnection ==
  /\ [](\A s \in ServiceNames : Cardinality(Live(s)) <= 1)
  /\ [][\A s \in ServiceNames :
          Created(s)' # Created(s) =>
            (connections[s] = 0 \/ conns[connections[s]].state = "SHUTDOWN")]_vars

C9_Witness ==
  \E s \in ServiceNames :
    /\ Cardinality(Created(s)) = 2
    /\ Cardinality(Live(s)) = 1
    /\ connections[s] \in Live(s)

(* C10: a GetConnection that returns an error leaves the service ->
   connection map as it was and creates no connection. *)
C10_FailureLeavesMap ==
  [][\A c \in RegCallers :
       (rpc[c] # "returned" /\ rpc'[c] = "returned"
          /\ rerr'[c] \in {ErrNotConfigured, ErrNewClient})
         => /\ connections' = connections
            /\ conns' = conns
            /\ rconn'[c] = 0]_vars

C10_Witness ==
  \E c, d \in RegCallers :
    /\ rpc[c] = "returned" /\ rerr[c] = ErrNewClient
    /\ rpc[d] = "returned" /\ rerr[d] = ErrNotConfigured
    /\ connections[rsvc[c]] = 0 /\ connections[rsvc[d]] = 0

(* --------------------------- proxy properties -------------------------- *)
(* C7 (as claimed): with the default thresholds, a request arriving for a
   service whose backend has failed on the 5 preceding invocations is
   answered 503 CIRCUIT_BREAKER_OPEN at once, before any connection
   acquisition or backend invocation. *)
C7_SixthRequestFailsFast ==
  [][\A h \in Handlers :
       (hpc[h] = "idle" /\ hpc'[h] # "idle"
          /\ backendFails[hroute'[h].service] >= DefaultMaxFailures)
         => /\ hpc'[h] = "responded"
            /\ hresp'[h] = [status |-> 503, code |-> "CIRCUIT_BREAKER_OPEN"]]_vars
(* ------------------ steps of a request, as seen by claims -------------- *)
(* the user service did not vouch for the token with this answer *)
BadReply(r) ==
  r.rpc # "ok" \/ ~r.success \/ ~r.info \/ r.userId = "" \/ r.email = ""

(* the request of v arrives at Middleware in this step *)
RequestArrives(v) == vpc[v] = "idle" /\ vpc'[v] # "idle" /\ vauth'[v] = "auth"

(* the user service answers the ValidateToken call of v in this step *)
IdentityAnswers(v) == vpc[v] = "identity" /\ vpc'[v] # "identity"

(* two ValidateToken calls for t were made and have returned, the cache
   answered every operation and no read found an expired entry *)
TwoCallsInWindow(t) ==
  /\ redisClient
  /\ ~vhist[t].disturbed
  /\ vhist[t].calls = 2
  /\ ~InProgress(t)

(* the header is present, but its scheme is not Bearer (ignoring case) or
   no token follows the scheme *)
Malformed(h) ==
  /\ h # <<>>
  /\ ~\E i \in 1..Len(h) :
        /\ h[i] = " "
        /\ EqualFold(SubSeq(h, 1, i - 1), Bearer)
        /\ \E j \in (i + 1)..Len(h) : ~IsSpace(h[j])

(* C11, as stated: with a working cache, any two ValidateToken calls for
   the same token inside the TTL window cause exactly one user-service
   call and two cache reads, the second of them a hit. *)
C11_AnyTwoCalls ==
  \A t \in Tokens :
    TwoCallsInWindow(t) =>
      vhist[t].idCalls = 1 /\ vhist[t].reads = 2 /\ vhist[t].hits = 1

(* C11, amended: with a working cache, two ValidateToken calls for the same
   token that the user service accepts, the second starting after the first
   returned and inside the TTL window, cause exactly one user-service call
   and two cache reads, the second of them a hit; and every hit returns the
   cached UserContext without a user-service call. *)
C11_TwoSequentialAcceptedCalls ==
  /\ \A t \in Tokens :
       (TwoCallsInWindow(t) /\ ~vhist[t].overlap /\ ~vhist[t].rejected) =>
         vhist[t].idCalls = 1 /\ vhist[t].reads = 2 /\ vhist[t].hits = 1
  /\ \A v \in Validators :
       (vpc[v] = "done" /\ vtok[v] # NoToken /\ vreply[v] = NoReply) =>
         /\ vres[v].err = Nil
         /\ \E e \in redis :
              /\ e.key = CachePrefix \o hashToken(vtok[v])
              /\ vres[v].uc = Unmarshal(e.val)

C11_Witness ==
  \E t \in Tokens :
    /\ TwoCallsInWindow(t) /\ ~vhist[t].overlap /\ ~vhist[t].rejected
    /\ \E v \in Validators :
         vpc[v] = "done" /\ vtok[v] = t /\ vreply[v] = NoReply /\ vres[v].uc = UserOf(t)

(* C12: when the user service does not vouch for the token (RPC error,
   unsuccessful response, missing user info, empty userId or email),
   ValidateToken returns an error after that single call and writes nothing
   to the cache. *)
C12_FailureNotCached ==
  [][\A v \in Validators :
       (IdentityAnswers(v) /\ BadReply(vreply'[v])) =>
         /\ vpc'[v] = "done"
         /\ vres'[v].err # Nil
         /\ vres'[v].uc = NoUser
         /\ redis' = redis
         /\ vhist'[vtok[v]].idCalls = vhist[vtok[v]].idCalls + 1]_vars

C12_Witness ==
  \E v \in Validators :
    /\ vpc[v] = "done" /\ vres[v].err = ErrUserContext
    /\ vreply[v].userId # "" /\ vreply[v].email = ""
    /\ redis = {}

(* C13: every cache entry has as key the prefix token_valid: followed by
   the hash of a token, and as value the serialized UserContext of that
   token; no token occurs in a key or a value. *)
C13_OnlyHashesCached ==
  \A e \in redis :
    /\ \E t \in Tokens :
         /\ e.key = CachePrefix \o hashToken(t)
         /\ e.val = Marshal(UserOf(t))
    /\ \A t \in Tokens : ~Contains(e.key, t) /\ ~Contains(e.val, t)

C13_Witness ==
  /\ Cardinality(redis) = 2
  /\ \E e \in redis : e.key = CachePrefix \o hashToken(TokB)

(* C14: a ValidateToken call that had no cache, or whose cache read or
   write failed, returns what the user service's answer yields: the
   UserContext of an accepting answer, an error for any other answer. *)
C14_CacheFailureIsTransparent ==
  \A v \in Validators :
    (vpc[v] = "done" /\ vtok[v] # NoToken /\ vfault[v]) =>
      /\ vreply[v] # NoReply
      /\ ~BadReply(vreply[v]) =>
           vres[v] = [uc |-> [userId |-> vreply[v].userId, email |-> vreply[v].email],
                      err |-> Nil]
      /\ BadReply(vreply[v]) =>
           /\ vres[v].uc = NoUser
           /\ vres[v].err \in {ErrRPC, ErrNotValid, ErrNoUserInfo, ErrUserContext}

C14_Witness ==
  \E v \in Validators :
    /\ vpc[v] = "done" /\ vfault[v] /\ redisClient
    /\ vres[v].err = Nil /\ vres[v].uc = UserOf(vtok[v])
    /\ redis = {}

(* C15: a request that carries no Authorization header is answered 401
   AUTH_TOKEN_MISSING in the step it arrives in; next.ServeHTTP is not
   called for it, so no breaker, no connection and no backend is touched. *)
C15_NoHeaderStopsAtMiddleware ==
  [][\A v \in Validators :
       (RequestArrives(v) /\ vhdr'[v] = <<>>) =>
         /\ vpc'[v] = "done"
         /\ vresp'[v] = [status |-> 401, code |-> "AUTH_TOKEN_MISSING"]
         /\ vnext'[v] = NoUser
         /\ vtok'[v] = NoToken
         /\ UNCHANGED <<breakers, connections, conns, hpc, redis, vhist>>]_vars

C15_Witness ==
  \E v \in Validators :
    /\ vpc[v] = "done" /\ vhdr[v] = <<>>
    /\ vresp[v].code = "AUTH_TOKEN_MISSING"

(* C16, as stated: the 401 code is AUTH_TOKEN_MISSING for an absent header
   and AUTH_TOKEN_INVALID for a malformed one. *)
C16_CodeFollowsExtractionError ==
  \A v \in Validators :
    (vpc[v] = "done" /\ vauth[v] = "auth") =>
      /\ vhdr[v] = <<>> => vresp[v] = [status |-> 401, code |-> "AUTH_TOKEN_MISSING"]
      /\ Malformed(vhdr[v]) => vresp[v] = [status |-> 401, code |-> "AUTH_TOKEN_INVALID"]

(* C16, amended: extraction fails with "header not found" exactly when the
   header is absent and with one of three other errors exactly when it is
   malformed; every extraction failure is answered 401 AUTH_TOKEN_MISSING,
   and AUTH_TOKEN_INVALID answers only a failed ValidateToken. *)
C16_ExtractionFailureIsMissing ==
  \A v \in Validators :
    (vpc[v] = "done" /\ vauth[v] = "auth") =>
      /\ vhdr[v] = <<>> <=> vres[v].err = ErrHeaderNotFound
      /\ Malformed(vhdr[v]) <=> vres[v].err \in {ErrHeaderFormat, ErrScheme, ErrTokenEmpty}
      /\ (vhdr[v] = <<>> \/ Malformed(vhdr[v])) =>
           /\ vresp[v] = [status |-> 401, code |-> "AUTH_TOKEN_MISSING"]
           /\ vtok[v] = NoToken /\ vnext[v] = NoUser
      /\ vresp[v].code = "AUTH_TOKEN_INVALID" <=> (vtok[v] # NoToken /\ vres[v].err # Nil)

C16_Witness ==
  /\ \E v \in Validators :
       /\ vpc[v] = "done" /\ Malformed(vhdr[v]) /\ vres[v].err = ErrScheme
       /\ vresp[v].code = "AUTH_TOKEN_MISSING"


(* ------------------ routing, as the claims describe it ----------------- *)
(* the segments of a path or pattern: the text between its slashes *)
RECURSIVE Split(_)
Split(s) ==
  IF \A i \in 1..Len(s) : s[i] # "/" THEN <<s>>
  ELSE LET i == CHOOSE k \in 1..Len(s) :
                  s[k] = "/" /\ \A j \in 1..(k - 1) : s[j] # "/"
       IN <<SubSeq(s, 1, i - 1)>> \o Split(SubSeq(s, i + 1, Len(s)))

IsVariable(g) == Len(g) >= 3 /\ g[1] = "{" /\ g[Len(g)] = "}"

(* segment by segment: a variable takes one non-empty segment, a final
   star takes whatever remains after its slash, other text must be equal *)
RECURSIVE SegmentsMatch(_, _)
SegmentsMatch(ps, xs) ==
  IF ps = <<>> THEN xs = <<>>
  ELSE IF xs = <<>> THEN FALSE
  ELSE IF Head(ps) = <<"*">> /\ Len(ps) = 1 THEN TRUE
  ELSE IF IsVariable(Head(ps))
  THEN Head(xs) # <<>> /\ SegmentsMatch(Tail(ps), Tail(xs))
  ELSE Head(xs) = Head(ps) /\ SegmentsMatch(Tail(ps), Tail(xs))

PatternAccepts(pattern, path) == SegmentsMatch(Split(pattern), Split(path))

(* the route's method is unset or the request's, ignoring case *)
MethodAccepts(r, method) ==
  r.method = <<>> \/ [i \in 1..Len(r.method) |-> ToLower(r.method[i])]
                       = [i \in 1..Len(method) |-> ToLower(method[i])]

Accepts(r, req) == PatternAccepts(r.path, req.path) /\ MethodAccepts(r, req.method)

Routed == rreq # NoRequest

IsExact(r)    == ~Contains(r.path, <<"{">>) /\ ~Contains(r.path, <<"*">>)
HasVariable(r) == Contains(r.path, <<"{">>)
HasWildcard(r) == Contains(r.path, <<"*">>)

(* the text of a pattern before its first variable or wildcard *)
LiteralPrefix(pattern) ==
  IF \A i \in 1..Len(pattern) : pattern[i] \notin {"{", "*"} THEN pattern
  ELSE LET i == CHOOSE k \in 1..Len(pattern) :
                  /\ pattern[k] \in {"{", "*"}
                  /\ \A j \in 1..(k - 1) : pattern[j] \notin {"{", "*"}
       IN SubSeq(pattern, 1, i - 1)

IsPrefix(a, b) == Len(a) <= Len(b) /\ SubSeq(b, 1, Len(a)) = a

(* the classes of the ordering: 3 literal, 2 with variables, 1 wildcard only *)
Class(r) == IF IsExact(r) THEN 3 ELSE IF HasVariable(r) THEN 2 ELSE 1

(* the total order of the statement: class, then length, then method *)
MoreSpecific(a, b) ==
  \/ Class(a) > Class(b)
  \/ Class(a) = Class(b) /\ Len(a.path) > Len(b.path)
  \/ Class(a) = Class(b) /\ Len(a.path) = Len(b.path)
       /\ a.method # <<>> /\ b.method = <<>>

(* C17: FindRoute returns the first route of the table whose compiled
   pattern matches the whole path and whose method is unset or the
   request's ignoring case, and fails with "no route found" when there is
   none. *)
C17_FirstMatchOrNotFound ==
  Routed =>
    LET ok == {i \in 1..Len(routes) :
                 /\ MatchFrom(routes[i].pathRegex, 1, rreq.path, 1)
                 /\ MethodAccepts(routes[i], rreq.method)}
    IN IF ok = {}
       THEN rres = [route |-> 0, err |-> ErrNoRoute]
       ELSE /\ rres.err = Nil
            /\ rres.route \in ok
            /\ \A i \in ok : rres.route <= i

C17_Witness ==
  /\ Len(routes) = 2
  /\ routes[1].path = Orders /\ routes[2].path = Orders
  /\ {routes[1].method, routes[2].method} = {GET, POST}
  /\ rreq = [path |-> Orders, method |-> DELETE]
  /\ rres.err = ErrNoRoute

(* C18: when a literal route and a route with the same literal prefix
   followed by variables or a wildcard both match the request, FindRoute
   returns a literal route. *)
C18_ExactRoutePreferred ==
  (/\ Routed
   /\ \E i, j \in 1..Len(routes) :
        /\ IsExact(routes[i]) /\ ~IsExact(routes[j])
        /\ IsPrefix(LiteralPrefix(routes[j].path), routes[i].path)
        /\ Accepts(routes[i], rreq) /\ Accepts(routes[j], rreq))
    => (rres.route # 0 /\ IsExact(routes[rres.route]))

(* C19, as stated: the table is in the total order class, then length,
   then method; every route is strictly more specific than each route
   after it. *)
C19_TotalOrder ==
  \A i, j \in 1..Len(routes) : i < j => MoreSpecific(routes[i], routes[j])

(* C19, amended: the table is in descending order of the score, so that
   among routes of one class that agree on declaring a method the longer
   pattern comes first, among patterns of one class and length the one
   declaring a method comes first, and a literal route comes before a
   route with variables and a route with variables before a wildcard-only
   route unless the later class has the pattern longer by 350 characters
   or more. *)
C19_ScoreOrder ==
  \A i, j \in 1..Len(routes) :
    i < j =>
      LET a == routes[i]
          b == routes[j]
          sameKind == /\ IsExact(a) = IsExact(b)
                      /\ HasVariable(a) = HasVariable(b)
                      /\ HasWildcard(a) = HasWildcard(b)
      IN /\ (sameKind /\ (a.method = <<>>) = (b.method = <<>>))
              => Len(a.path) >= Len(b.path)
         /\ (sameKind /\ Len(a.path) = Len(b.path))
              => ~(a.method = <<>> /\ b.method # <<>>)
         /\ (Class(b) > Class(a) /\ ~(HasVariable(a) /\ HasWildcard(a)))
              => Len(a.path) - Len(b.path) >= 350

C19_Witness ==
  /\ Len(routes) = 3
  /\ IsExact(routes[1]) /\ routes[1].method # <<>>
  /\ IsExact(routes[2]) /\ routes[2].method = <<>>
  /\ Len(routes[2].path) > Len(routes[1].path)
  /\ HasVariable(routes[3])

(* C20: a compiled pattern matches a path only as a whole, a variable
   taking exactly one non-empty segment and a star any remainder; so
   /api/v1/orders/{id} matches /api/v1/orders/123 but neither
   /api/v1/orders/ nor /api/v1/orders/123/items. *)
C20_WholePathMatch ==
  Routed =>
    /\ \A i \in 1..Len(routes) :
         /\ (i = rres.route) => PatternAccepts(routes[i].path, rreq.path)
         /\ (MethodAccepts(routes[i], rreq.method) /\ (rres.route = 0 \/ i < rres.route))
              => ~PatternAccepts(routes[i].path, rreq.path)
    /\ (Len(routes) = 1 /\ routes[1].path = Orders \o <<"/","{","i","d","}">>
          /\ MethodAccepts(routes[1], rreq.method)) =>
         /\ rreq.path = Orders \o <<"/","1","2","3">> => rres.route = 1
         /\ rreq.path \in {Orders \o <<"/">>,
                           Orders \o <<"/","1","2","3","/","i","t","e","m","s">>}
              => rres = [route |-> 0, err |-> ErrNoRoute]

(* the wildcard route of the routing guide, and where it stands in the table *)
WildcardRoute == NewRoute(Quotes \o <<"/","*">>, GET)
WildcardAt ==
  {i \in 1..Len(routes) :
     routes[i].path = WildcardRoute.path /\ routes[i].method = WildcardRoute.method}

(* C21: the route /api/v1/market-data/* with method GET matches GET requests
   for /api/v1/market-data/AAPL, /api/v1/market-data/quotes/AAPL,
   /api/v1/market-data/ and /api/v1/market-data, and does not match
   /api/v1/orders/123: with the route in the table such a request finds a
   route no later than it, and /api/v1/orders/123 never finds it. *)
C21_WildcardExample ==
  (Routed /\ EqualFold(rreq.method, GET)) =>
    \A i \in WildcardAt :
      /\ rreq.path \in { Quotes \o <<"/","A","A","P","L">>,
                         Quotes \o <<"/","q","u","o","t","e","s","/","A","A","P","L">>,
                         Quotes \o <<"/">>,
                         Quotes }
           => (rres.err = Nil /\ rres.route <= i)
      /\ rreq.path = Orders \o <<"/","1","2","3">> => rres.route # i

(* the braces of a pattern pair up: every { is closed before the next opens *)
RECURSIVE Balanced(_, _, _)
Balanced(p, i, open) ==
  IF i > Len(p) THEN ~open
  ELSE IF p[i] = "{" THEN ~open /\ Balanced(p, i + 1, TRUE)
  ELSE IF p[i] = "}" THEN open /\ Balanced(p, i + 1, FALSE)
  ELSE Balanced(p, i + 1, open)

(* C22: CompilePathPattern fails on a malformed pattern such as one with
   unbalanced braces and the load aborts: no route table of a running
   process holds a matcher for such a pattern, and no request is routed
   to one. *)
C22_MalformedPatternRejected ==
  /\ \A i \in 1..Len(routes) : Balanced(routes[i].path, 1, FALSE)
  /\ (Routed /\ rres.route # 0) => Balanced(routes[rres.route].path, 1, FALSE)

(* the route FindRoute returned *)
Found == routes[rres.route]

(* the segments of the path standing where the pattern has a variable,
   for a pattern made of whole segments that are literal or a variable *)
VariableSegments(pattern, path) ==
  LET ps == Split(pattern)
      xs == Split(path)
      at == {i \in 1..Len(ps) : IsVariable(ps[i])}
  IN { <<SubSeq(ps[i], 2, Len(ps[i]) - 1), xs[i]>> : i \in at }

(* no brace and no star in the text *)
Plain(g) == ~Contains(g, <<"{">>) /\ ~Contains(g, <<"}">>) /\ ~Contains(g, <<"*">>)

(* patterns whose segments are literal text or one variable, with
   possibly a star as the last segment *)
SegmentPattern(pattern) ==
  \A i \in 1..Len(Split(pattern)) :
    LET g == Split(pattern)[i]
    IN \/ Plain(g)
       \/ IsVariable(g) /\ Plain(SubSeq(g, 2, Len(g) - 1))
       \/ g = <<"*">> /\ i = Len(Split(pattern))

(* C23: for a route that matches a path, ExtractPathVariables gives each
   declared variable name the text of the segment standing at the position
   of that variable (id=123 for the id route on /api/v1/orders/123, both
   values for two variables), and no variables for a route declaring none. *)
C23_VariablesBySegment ==
  (Routed /\ rres.err = Nil) =>
    /\ ~Contains(Found.path, <<"{">>) => rvars = NilMap
    /\ (SegmentPattern(Found.path) /\ Contains(Found.path, <<"{">>)) =>
         rvars = MakeMap(VariableSegments(Found.path, rreq.path))
    /\ (Found.path = Orders \o <<"/","{","i","d","}">>
          /\ rreq.path = Orders \o <<"/","1","2","3">>) =>
         rvars = MakeMap({ << <<"i","d">>, <<"1","2","3">> >> })

C23_Witness ==
  /\ Routed /\ rres.err = Nil
  /\ Cardinality(rvars.kv) = 2
  /\ << <<"i","t","e","m","I","d">>, <<"4","5","6">> >> \in rvars.kv

(* ------------------ a request, as the claims describe it --------------- *)
Finished(h) == qpc[h] = "done"

(* the positions of the events of one kind in the history of request h *)
At(h, ev) == {i \in 1..Len(qtrace[h]) : qtrace[h][i].ev = ev}
Did(h, ev) == At(h, ev) # {}

(* the result the request got from a collaborator it called once *)
ResultOf(h, ev) == qtrace[h][CHOOSE i \in At(h, ev) : TRUE].arg

(* what the client receives: the status of the first WriteHeader, and the
   bodies in the order they were written *)
ClientStatus(h) == qtrace[h][CHOOSE i \in At(h, "WriteHeader") :
                               \A j \in At(h, "WriteHeader") : i <= j].status

(* the client got exactly this status with the error envelope of this code *)
AnsweredError(h, status, code) ==
  /\ Did(h, "WriteHeader") /\ ClientStatus(h) = status
  /\ qbody[h] = <<ErrorBody(code)>>

(* RecordRequest calls of the request with this success flag *)
Recorded(h, flag) == {i \in At(h, "RecordRequest") : qtrace[h][i].arg = flag}

(* the acquisition of a connection failed for request h *)
AcquisitionFailed(h) == Did(h, "Call") /\ ResultOf(h, "Call") # Nil

(* C24: when the breaker-guarded acquisition is rejected with ErrCircuitOpen
   or ErrTooManyRequests the client receives 503 CIRCUIT_BREAKER_OPEN, any
   other acquisition failure gives 503 SERVICE_UNAVAILABLE, and in both
   cases the backend is not invoked. *)
C24_AcquisitionFailure ==
  \A h \in Handlers :
    (Finished(h) /\ AcquisitionFailed(h)) =>
      /\ ResultOf(h, "Call") \in {ErrCircuitOpen, ErrTooManyRequests}
           => AnsweredError(h, 503, "CIRCUIT_BREAKER_OPEN")
      /\ ResultOf(h, "Call") \notin {ErrCircuitOpen, ErrTooManyRequests}
           => AnsweredError(h, 503, "SERVICE_UNAVAILABLE")
      /\ ~Did(h, "Invoke")

(* C25: a request whose pair has no typed builder is never forwarded to
   the backend, and once it reaches the builder it is answered with 500. *)
C25_UnsupportedPairIsRefused ==
  \A h \in Handlers :
    qroute[h].pair \notin TypedPairs =>
      /\ ~Did(h, "Invoke")
      /\ qpc[h] # "invoke"
      /\ (Finished(h) /\ Did(h, "createProtoMessages")) =>
           AnsweredError(h, 500, "INTERNAL_ERROR")

C25_Witness ==
  \E h \in Handlers :
    /\ Finished(h) /\ qroute[h].pair = "UserService.GetProfile"
    /\ Did(h, "createProtoMessages") /\ ClientStatus(h) = 500

(* the status and code the error table gives for a backend error *)
MappedError(e) ==
  CASE e = "NotFound"         -> <<404, "NOT_FOUND">>
    [] e = "Unavailable"      -> <<503, "SERVICE_UNAVAILABLE">>
    [] e = "DeadlineExceeded" -> <<504, "TIMEOUT">>
    [] OTHER                  -> <<500, "INTERNAL_ERROR">>

(* C26: whenever the backend invocation of a request fails the client
   receives the mapped status and code, and exactly one failed-request
   metric is recorded for the request. *)
C26_BackendFailureRecorded ==
  \A h \in Handlers :
    (Finished(h) /\ Did(h, "Invoke") /\ ResultOf(h, "Invoke") # Nil) =>
      /\ AnsweredError(h, MappedError(ResultOf(h, "Invoke"))[1],
                          MappedError(ResultOf(h, "Invoke"))[2])
      /\ Cardinality(Recorded(h, "false")) = 1

(* the request got a backend response and wrote it out as the payload *)
PayloadSent(h) ==
  /\ Finished(h) /\ Did(h, "Invoke") /\ ResultOf(h, "Invoke") = Nil
  /\ Len(qbody[h]) = 1 /\ qbody[h][1].top # "error"

(* the members of a JSON object text with this name *)
Members(doc, k) == {i \in 1..Len(doc.kv) : doc.kv[i].k = k}

(* the backend response of request h carries the envelope, reporting ok *)
Carries(h, ok) ==
  \E i \in Members(qresp[h], "api_response") :
    qresp[h].kv[i].v.t = "env" /\ qresp[h].kv[i].v.success = ok

(* the members of the backend response other than the envelope *)
Payload(h) ==
  {i \in 1..Len(qresp[h].kv) : qresp[h].kv[i].k # "api_response"}

(* C27: for a backend response that carries the api_response envelope, a
   successful envelope is not in the client body, which is the inner
   payload alone when exactly one other member remains; a failed envelope
   leaves the client body the serialized response, unchanged. *)
C27_EnvelopeUnwrapped ==
  \A h \in Handlers :
    PayloadSent(h) =>
      /\ Carries(h, "true") =>
           /\ Members(qbody[h][1], "api_response") = {}
           /\ Cardinality(Payload(h)) = 1 =>
                \A i \in Payload(h) : qbody[h][1] = JSONVal(qresp[h].kv[i].v)
      /\ Carries(h, "false") => qbody[h][1] = qresp[h]

C27_Witness ==
  \E h \in Handlers :
    /\ PayloadSent(h) /\ Carries(h, "true")
    /\ qbody[h][1] = JSONVal(Str("100"))

(* the stage an event belongs to: 1 route lookup, 2 token validation,
   3 connection acquisition, 4 building and invoking the backend call,
   5 response; 0 for what is not a stage (metrics) *)
Stage(e) ==
  CASE e.ev = "FindRoute" -> 1
    [] e.ev \in {"extractToken", "userClient.ValidateToken", "ValidateToken"} -> 2
    [] e.ev \in {"GetConnection", "Call"} -> 3
    [] e.ev \in {"ReadAll", "createProtoMessages", "Invoke"} -> 4
    [] e.ev \in {"WriteHeader", "Write"} -> 5
    [] OTHER -> 0

(* the event reports the failure of a stage *)
Failure(e) == Stage(e) \in 1..4 /\ e.arg # Nil

(* C28: within one request the stages run in the order route lookup, token
   validation (only for routes that require it), connection acquisition,
   backend invocation, response; each at most once, with at most one
   identity-service call, one GetConnection and one backend invocation; a
   stage runs only if every earlier one succeeded, and a failed stage ends
   the request with an error and no later stage. *)
C28_StagesInOrderOnce ==
  \A h \in Handlers :
    LET t == qtrace[h]
    IN /\ \A i, j \in 1..Len(t) :
            (i < j /\ Stage(t[i]) > 0 /\ Stage(t[j]) > 0) => Stage(t[i]) <= Stage(t[j])
       /\ \A ev \in {"FindRoute", "ValidateToken", "userClient.ValidateToken",
                     "GetConnection", "Call", "Invoke"} : Cardinality(At(h, ev)) <= 1
       /\ Did(h, "extractToken") => qroute[h].auth
       /\ (Did(h, "Call") /\ qroute[h].auth) => Did(h, "ValidateToken")
       /\ Did(h, "ValidateToken") => Did(h, "FindRoute")
       /\ Did(h, "Call") => Did(h, "FindRoute")
       /\ Did(h, "Invoke") => Did(h, "Call")
       /\ \A i, j \in 1..Len(t) :
            (i < j /\ Failure(t[i])) => Stage(t[j]) \in {0, 5, Stage(t[i])}
       /\ Finished(h) =>
            /\ Did(h, "WriteHeader")
            /\ (\E i \in 1..Len(t) : Failure(t[i])) => ClientStatus(h) >= 400

C28_Witness ==
  \E h \in Handlers :
    /\ Finished(h) /\ qroute[h].auth
    /\ Did(h, "userClient.ValidateToken") /\ Did(h, "GetConnection") /\ Did(h, "Invoke")
    /\ ResultOf(h, "Invoke") = Nil /\ ClientStatus(h) = 200

(* the response of request h is coherent: a success status with the payload
   or an error status with the error envelope *)
Coherent(h) ==
  /\ Len(qbody[h]) = 1
  /\ \/ ClientStatus(h) < 400 /\ qbody[h][1].top # "error"
     \/ ClientStatus(h) >= 400 /\ qbody[h][1].top = "error"

(* C29: every request ends with exactly one response whose status is
   written once: a success status with the payload or an error status with
   the error envelope, never a success status followed by an error body and
   never two responses, also when serializing the backend response fails. *)
C29_OneCoherentResponse ==
  \A h \in Handlers :
    Finished(h) =>
      /\ Cardinality(At(h, "WriteHeader")) = 1
      /\ Cardinality(At(h, "Write")) = 1
      /\ Coherent(h)

(* the connections the registry holds *)
Held == {connections[s] : s \in DOMAIN connections} \ {0}

(* caller c runs Close() in this step *)
Closes(c) == rpc[c] = "idle" /\ rpc'[c] = "returned" /\ rop'[c] = "Close"

(* C30: Close() attempts to close every connection the registry holds, going
   on with the remaining ones when a close fails, and returns an error
   exactly when at least one close failed (a close fails on a connection
   that is already shut down). *)
C30_CloseAllReported ==
  [][\A c \in RegCallers :
       Closes(c) =>
         /\ \A i \in Held : conns'[i].state = "SHUTDOWN"
         /\ (rerr'[c] # Nil) <=> (\E i \in Held : conns[i].state = "SHUTDOWN")]_vars

(* Close() has returned an error while the registry held two connections,
   one of them dialled again after an earlier Close() *)
C30_Witness ==
  \E c \in RegCallers :
    /\ rpc[c] = "returned" /\ rop[c] = "Close" /\ rerr[c] = ErrClose
    /\ Cardinality(Held) = 2
    /\ \A i \in Held : conns[i].state = "SHUTDOWN"
    /\ \E i \in Held, j \in ConnIds \ Held :
         conns[j].svc = conns[i].svc /\ conns[j].state = "SHUTDOWN"

(* caller c, inside HealthCheck, reads the state of its connection in this step *)
ReadsState(c) == rop[c] = "HealthCheck" /\ rpc[c] = "state" /\ rpc'[c] # "state"

(* the wait of caller c inside HealthCheck ends in this step *)
WaitEnds(c) == rop[c] = "HealthCheck" /\ rpc[c] = "wait" /\ rpc'[c] = "returned"

Unhealthy == {"SHUTDOWN", "TRANSIENT_FAILURE"}

(* C31: HealthCheck succeeds at once on a Ready connection and waits (a
   bounded time, for a state transition) only on one that is not Ready; it
   fails with Unhealthy when the state is Shutdown or TransientFailure, at
   the first look or after the wait. *)
C31_HealthCheckReady ==
  [][\A c \in RegCallers :
       /\ ReadsState(c) =>
            /\ conns[rconn[c]].state = "READY" => (rpc'[c] = "returned" /\ rerr'[c] = Nil)
            /\ rpc'[c] = "wait" => conns[rconn[c]].state # "READY"
            /\ conns[rconn[c]].state \in Unhealthy
                 => (rpc'[c] = "returned" /\ rerr'[c] = ErrUnhealthy)
       /\ WaitEnds(c) =>
            (conns[rconn[c]].state \in Unhealthy => rerr'[c] = ErrUnhealthy)]_vars

(* the messages of the bodies written for request h *)
MessagesSent(h) == {qtrace[h][i].msg : i \in At(h, "Write")}

(* the internal errors request h ran into after the connection was acquired:
   of the request construction and of the backend invocation *)
InternalErrors(h) ==
  {qtrace[h][i].arg : i \in {j \in At(h, "createProtoMessages") \cup At(h, "Invoke") :
                               qtrace[h][j].arg # Nil}}

(* C32: the error body sent for a failed backend call or a failed request
   construction carries the mapped code and a sanitized message; the raw
   text of the internal error is never forwarded verbatim. *)
C32_NoRawErrorText ==
  \A h \in Handlers :
    (Finished(h) /\ InternalErrors(h) # {}) =>
      /\ Len(qbody[h]) = 1 /\ qbody[h][1].top = "error"
      /\ \A e \in InternalErrors(h) : ErrorText(e) \notin MessagesSent(h)

(* request v has passed the dynamic route handler: it was answered by the
   middleware or it has reached HandleRequest *)
Handled(v) == vpc[v] = "done"

(* the identity request v forwards is the one the user service returned for
   the token the request presented *)
ForwardsUserOfToken(v) ==
  /\ vtok[v] # NoToken /\ extractToken(vhdr[v]).token = vtok[v]
  /\ \E a \in vhist[vtok[v]].accepted :
       /\ vmd[v].xUserId = a.userId /\ vmd[v].userId = a.userId
       /\ vmd[v].xUserEmail = a.email

IdentityForwarding ==
  \A v \in Validators :
    Handled(v) =>
      /\ vmd[v] # NoIdentity =>
           vauth[v] = "auth" /\ vres[v].err = Nil /\ ForwardsUserOfToken(v)
      /\ (vauth[v] = "auth" /\ vresp[v] = NoResp) => ForwardsUserOfToken(v)
      /\ vauth[v] = "public" => vmd[v] = NoIdentity

(* C33: the user identity forwarded to the backend is present only for
   requests whose bearer token was validated and then equals the userId and
   email the identity service returned for exactly the presented token, also
   when served from the cache; a request on a public route forwards no
   identity and causes no cache read and no identity-service call. *)
C33_ForwardedIdentity ==
  /\ []IdentityForwarding
  /\ [][\A v \in Validators :
          (vauth[v] = "none" /\ vauth'[v] = "public") =>
             UNCHANGED <<redis, vhist, vreply, vtok>>]_vars

(* a request with a token is served from the cache and forwards the
   identity cached for it *)
C33_Witness ==
  \E v \in Validators :
    /\ Handled(v) /\ vauth[v] = "auth" /\ vmd[v] # NoIdentity
    /\ vreply[v] = NoReply /\ vhist[vtok[v]].hits >= 1

(* no wrapped operation fails in this step *)
NoFailure == \A c \in Callers : ~Fails(c)

(* C34: when from some point on every wrapped operation succeeds, while
   Calls keep arriving and time keeps advancing, the breaker does not stay
   Open or HalfOpen: it becomes Closed again (HalfOpen once resetTimeout
   has passed, Closed after halfOpenRequests successful probes). *)
C34_EventuallyClosed ==
  (<>[][NoFailure]_vars) => []<>(cb.state = StateClosed)

(* the breaker has tripped and is Closed again through its probes *)
C34_Witness ==
  /\ cb.state = StateClosed /\ lastTrip # "none"
  /\ cb.successCount >= cb.halfOpenRequests

(* C35: in every reachable state of a breaker, under any interleaving of
   concurrent Calls and Reset, a Closed breaker has a failure counter
   strictly below maxFailures. *)
C35_ClosedBelowMaxFailures ==
  cb.state = StateClosed => cb.failures < cb.maxFailures

(* a breaker that has tripped before is Closed one failure short of
   tripping, with two Calls in flight *)
C35_Witness ==
  /\ cb.state = StateClosed /\ cb.failures = cb.maxFailures - 1
  /\ lastTrip # "none"
  /\ \E c, d \in Callers : c # d /\ cpc[c] = "running" /\ cpc[d] = "running"

(* C36: in every reachable state in which the breaker is HalfOpen the
   probe-success counter is strictly below halfOpenRequests, so no Call
   returns ErrTooManyRequests, whatever the sequence or interleaving. *)
C36_HalfOpenBelowProbeLimit ==
  /\ cb.state = StateHalfOpen => cb.successCount < cb.halfOpenRequests
  /\ \A c \in Callers : cret[c] # ErrTooManyRequests

(* the breaker is HalfOpen one successful probe short of closing, with a
   probe in flight *)
C36_Witness ==
  /\ cb.state = StateHalfOpen /\ cb.halfOpenRequests > 1
  /\ cb.successCount = cb.halfOpenRequests - 1
  /\ Probes # {}

(* the backend invocation of request h returns in this step *)
InvokeReturns(h) == hpc[h] = "invoke" /\ hpc'[h] # "invoke"

(* request h is admitted or rejected by the breaker of s in this step, or
   the breaker is told how its connection acquisition ended *)
AcquisitionStep(h, s) ==
  /\ hroute'[h].service = s
  /\ \/ hpc[h] = "idle" /\ hpc'[h] # "idle"
     \/ hpc[h] = "after" /\ hpc'[h] # "after"

(* C37: the outcome of the backend invocation is never reported to the
   circuit breaker: however many invocations of a service fail, the state
   and the failure counter of its breaker stay as they are; they change
   only in the breaker-guarded connection acquisition, the counter only
   when the acquisition has ended. *)
C37_InvokeNotReported ==
  [][/\ \A h \in Handlers : InvokeReturns(h) => breakers' = breakers
     /\ \A s \in ServiceNames :
          /\ breakers'[s] # breakers[s] => \E h \in Handlers : AcquisitionStep(h, s)
          /\ breakers'[s].failures # breakers[s].failures =>
               \E h \in Handlers : hpc[h] = "after" /\ hroute[h].service = s]_vars

(* the backend of a service has failed maxFailures times in a row and the
   breaker of the service is Closed with no failure counted *)
C37_Witness ==
  \E s \in ServiceNames :
    /\ backendFails[s] >= DefaultMaxFailures
    /\ breakers[s].state = StateClosed /\ breakers[s].failures = 0

(* --------------------------- registry after Close ----------------------- *)
(* a stored connection that has not been closed *)
LiveStored == {i \in Held : conns[i].state # "SHUTDOWN"}

(* caller c leaves the creation path of a GetConnection issued after Close() *)
CreatesAfterClose(c) ==
  /\ rafter.issued[c]
  /\ rpc[c] = "create" /\ rpc'[c] # "create"

(* C38: once Close() has completed the registry holds no live connection,
   and the creation path of a GetConnection issued after Close neither
   dials nor stores a connection. *)
C38_NoDialAfterClose ==
  [][/\ rafter'.closed => LiveStored' = {}
     /\ \A c \in RegCallers :
          CreatesAfterClose(c) => connections' = connections /\ conns' = conns]_vars

(* ------------------- outcomes of Calls admitted earlier ----------------- *)
(* the success of c is counted as a probe success in this step *)
CountedAsProbe(c) == Succeeds(c) /\ cb.state = StateHalfOpen

(* the Call of c that fails in this step was admitted while Closed *)
LateFailure(c) == Fails(c) /\ cadm[c] = StateClosed

(* C39: under concurrent Calls an outcome acts on the breaker only as an
   outcome of the state in which its Call was admitted: a success counted as
   a probe success belongs to a Call admitted while HalfOpen, and the late
   failure of a Call admitted while Closed neither reopens a HalfOpen
   breaker nor moves lastFailureTime of an Open one. *)
C39_OutcomeOfAdmissionState ==
  [][\A c \in Callers :
       /\ CountedAsProbe(c) => cadm[c] = StateHalfOpen
       /\ LateFailure(c) =>
            /\ cb.state = StateHalfOpen => cb'.state = StateHalfOpen
            /\ cb.state = StateOpen => cb'.lastFailureTime = cb.lastFailureTime]_vars

(* ----------------------- tokens the gateway accepts --------------------- *)
(* ValidateToken returns a user context to the middleware in this step *)
ReturnsUser(v) ==
  /\ vauth'[v] = "auth"
  /\ vpc[v] # "done" /\ vpc'[v] = "done"
  /\ vres'[v].err = Nil

(* the user service accepted the token with this user context, in a call
   that was running less than the TTL before time t *)
AcceptedWithin(token, uc, t) ==
  \E a \in vhist'[token].accepted :
    /\ a.userId = uc.userId /\ a.email = uc.email
    /\ a.userId # "" /\ a.email # ""
    /\ t - a.at < CacheTTL

(* C40: ValidateToken returns a user context for a token only if the user
   service accepted exactly that token, with non-empty userId and email, in
   this call or in an earlier call less than the 5-minute TTL before; a
   token the user service never accepted is never accepted, whatever the
   cache holds for other tokens. *)
C40_OnlyAcceptedTokens ==
  [][\A v \in Validators :
       ReturnsUser(v) => AcceptedWithin(vtok'[v], vres'[v].uc, now')]_vars

(* a token is accepted from the cache, without a call of the user service,
   later than the call in which the user service accepted it *)
C40_Witness ==
  \E v \in Validators :
    /\ vpc[v] = "done" /\ vauth[v] = "auth" /\ vres[v].err = Nil
    /\ vreply[v] = NoReply
    /\ \A a \in vhist[vtok[v]].accepted : a.at < now
    /\ vhist[vtok[v]].hits > 0


====
